---- MODULE Spec2Model ----
(***************************************************************************)
(* Model of the Flakiness Node.js SDK.                                     *)
(*                                                                         *)
(* The upload pipeline: uploadReport, ReportUpload.upload,                 *)
(* ReportUpload._api, ReportUpload._uploadReport,                          *)
(* ReportUpload._uploadAttachment and retryWithBackoff.                    *)
(*                                                                         *)
(* The report normalizer: normalizeReport and                              *)
(* deduplicateTestsSuitesEnvironments.                                     *)
(*                                                                         *)
(* The program is single-threaded and cooperative: every action below is   *)
(* one run-to-completion piece of JavaScript, from the event that resumes  *)
(* it (a response, a timer, a finished compression) to the next await      *)
(* that suspends on the outside world.  Promise continuations (microtasks) *)
(* run inside the action of the event that settles the promise.            *)
(***************************************************************************)
EXTENDS Integers, Sequences, FiniteSets, TLC

VARIABLES
  options,      \* UploadOptions given to uploadReport
  environ,      \* process.env, as far as uploadReport reads it
  report,       \* the report given to uploadReport
  attachments,  \* the attachments given to uploadReport
  pc,           \* where uploadReport / ReportUpload.upload is suspended
  accessToken,  \* the local variable flakinessAccessToken
  outcome,      \* how the promise returned by uploadReport has settled
  net,          \* the requests of _api and of the OIDC exchange, and their responses
  urls,         \* the attachment ids that have a presigned URL (the Map `attachments`)
  uploads,      \* one retryWithBackoff record per started upload; 0 is the report
  rb,           \* retryWithBackoff on its own: the backoff argument
  rr,           \* retryWithBackoff on its own: the state of the call
  rlog,         \* retryWithBackoff on its own: the outcomes of the job so far
  given,        \* normalizeReport: the report as it was when it was passed in
  passed,       \* normalizeReport: the report object passed in, as it is now
  result,       \* normalizeReport: what the call returned
  again,        \* normalizeReport: what the call on the result returned
  npc,          \* normalizeReport: given | once | twice
  collection,   \* telemetry: the TelemetryPoint[] of a sampler (_ram, _cpu)
  precision,    \* telemetry: the sampler's _precision
  samples,      \* telemetry: the points given to addTelemetryPoint so far
  protocol,     \* telemetry: what toProtocolTelemetry returned to enrich
  disk,         \* attachment ids: the file on disk, its path and its bytes
  hashing,      \* attachment ids: the read stream and the hash of sha1File
  fileAttachment,  \* attachment ids: what createFileAttachment resolved to
  dataAttachment,  \* attachment ids: what createDataAttachment resolved to
  spc,          \* StaticServer.start: idle | listen | returned | thrown
  sport,        \* StaticServer.start: the local variable port
  si,           \* StaticServer.start: the loop counter i
  listens,      \* StaticServer.start: the ports given to listen and what came of it
  bound,        \* StaticServer: the port the server is listening on
  address       \* StaticServer.start: the value returned

pvars == <<options, environ, report, attachments, pc, accessToken, outcome, net, urls, uploads>>
rvars == <<rb, rr, rlog>>
nvars == <<given, passed, result, again, npc>>
tvars == <<collection, precision, samples, protocol>>
avars == <<disk, hashing, fileAttachment, dataAttachment>>
svars == <<spc, sport, si, listens, bound, address>>
vars == <<pvars, rvars, nvars, tvars, avars, svars>>

(***************************************************************************)
(* JavaScript values                                                       *)
(***************************************************************************)
UNDEFINED == "<undefined>"

\* !v for a string or undefined
Falsy(v) == v = UNDEFINED \/ v = ""

\* a ?? b
Nullish(a, b) == IF a = UNDEFINED THEN b ELSE a

Min(a, b) == IF a <= b THEN a ELSE b

\* no call yet, of a function whose result the model keeps
NotCalled == [called |-> FALSE]

(***************************************************************************)
(* retryWithBackoff(job, backoff)                                          *)
(*   st     idle | running (job awaited) | sleeping (setTimeout awaited)   *)
(*          | resolved | rejected                                          *)
(*   i      number of loop iterations finished                             *)
(*   calls  number of invocations of job                                   *)
(*   waits  the timeouts given to setTimeout, in order                     *)
(*   value  the value returned, err the error thrown                       *)
(***************************************************************************)
HTTP_BACKOFF == <<100, 500, 1000, 1000, 1000, 1000>>

RetryNew == [st |-> "idle", i |-> 0, calls |-> 0, waits |-> <<>>,
             value |-> "none", err |-> "none"]

\* job() is invoked and awaited
retryCall(r) == [r EXCEPT !.st = "running", !.calls = @ + 1]

\* a mutant of retrySettle: the last attempt is caught like the others
retrySettleSwallowLast(r, backoff, o) ==
  IF o.ok THEN [r EXCEPT !.st = "resolved", !.value = o.v]
  ELSE IF r.i < Len(backoff)
    THEN [r EXCEPT !.st = "sleeping", !.waits = Append(@, backoff[r.i + 1])]
    ELSE [r EXCEPT !.st = "resolved", !.value = "none"]

\* the awaited job settles with o = [ok, v]: inside the loop a failure is
\* caught and followed by setTimeout(timeout); the call after the loop is
\* not caught
retrySettle(r, backoff, o) ==
  IF o.ok THEN [r EXCEPT !.st = "resolved", !.value = o.v]
  ELSE IF r.i < Len(backoff)
    THEN [r EXCEPT !.st = "sleeping", !.waits = Append(@, backoff[r.i + 1])]
    ELSE [r EXCEPT !.st = "rejected", !.err = o.v]

\* the timer fires: the next iteration (or the call after the loop) invokes job
retryWake(r) == retryCall([r EXCEPT !.i = @ + 1])

(***************************************************************************)
(* retryWithBackoff on its own, for backoff schedules of several lengths   *)
(***************************************************************************)
RetryBackoffs ==
  {SubSeq(HTTP_BACKOFF, 1, n) : n \in 0..Len(HTTP_BACKOFF)} \cup {<<500, 100>>, <<0>>}

\* what a job can do: return one of two values or throw one of two errors
JobOutcomes == [ok : BOOLEAN, v : {"x", "y"}]

RetryInit ==
  /\ rb \in RetryBackoffs
  /\ rr = RetryNew
  /\ rlog = <<>>

RetryStart ==
  /\ rr.st = "idle"
  /\ rr' = retryCall(rr)
  /\ UNCHANGED <<rb, rlog, pvars, nvars, tvars, avars, svars>>

RetryJobSettles ==
  /\ rr.st = "running"
  /\ \E o \in JobOutcomes :
       /\ rr' = retrySettle(rr, rb, o)
       /\ rlog' = Append(rlog, o)
  /\ UNCHANGED <<rb, pvars, nvars, tvars, avars, svars>>

RetryTimerFires ==
  /\ rr.st = "sleeping"
  /\ rr' = retryWake(rr)
  /\ UNCHANGED <<rb, rlog, pvars, nvars, tvars, avars, svars>>

RetryNext == RetryStart \/ RetryJobSettles \/ RetryTimerFires

(***************************************************************************)
(* Attachments and the requests that carry them                            *)
(***************************************************************************)
UpperChars == <<"A", "E", "J", "L", "M", "N", "O", "S", "T", "X">>
LowerChars == <<"a", "e", "j", "l", "m", "n", "o", "s", "t", "x">>

\* String.prototype.toLocaleLowerCase, one character
lowerChar(c) ==
  IF \E k \in DOMAIN UpperChars : UpperChars[k] = c
  THEN LowerChars[CHOOSE k \in DOMAIN UpperChars : UpperChars[k] = c]
  ELSE c

toLocaleLowerCase(s) == [k \in DOMAIN s |-> lowerChar(s[k])]

\* String.prototype.trim
trim(s) ==
  LET ink == {k \in DOMAIN s : s[k] # " "}
  IN  IF ink = {} THEN <<>>
      ELSE SubSeq(s, CHOOSE k \in ink : \A j \in ink : k <= j,
                     CHOOSE k \in ink : \A j \in ink : j <= k)

startsWith(s, p) == Len(s) >= Len(p) /\ SubSeq(s, 1, Len(p)) = p
endsWith(s, p) == Len(s) >= Len(p) /\ SubSeq(s, Len(s) - Len(p) + 1, Len(s)) = p

\* a mutant of compressable: the content type is not trimmed
compressableUntrimmed(contentType) ==
  LET mimeType == toLocaleLowerCase(contentType)
  IN  \/ startsWith(mimeType, <<"t", "e", "x", "t", "/">>)
      \/ endsWith(mimeType, <<"+", "j", "s", "o", "n">>)
      \/ endsWith(mimeType, <<"+", "t", "e", "x", "t">>)
      \/ endsWith(mimeType, <<"+", "x", "m", "l">>)

\* the test of _uploadAttachment on attachment.contentType
compressable(contentType) ==
  LET mimeType == trim(toLocaleLowerCase(contentType))
  IN  \/ startsWith(mimeType, <<"t", "e", "x", "t", "/">>)
      \/ endsWith(mimeType, <<"+", "j", "s", "o", "n">>)
      \/ endsWith(mimeType, <<"+", "t", "e", "x", "t">>)
      \/ endsWith(mimeType, <<"+", "x", "m", "l">>)

\* compressTextAsync: the brotli stream of the data
compressTextAsync(data) == [enc |-> "br", data |-> data]

\* bytes sent as they are
Raw(data) == [enc |-> "identity", data |-> data]

\* attachments uploadReport can be called with, one of each path through
\* _uploadAttachment; the id is the hash of the bytes
BinaryBuffer == [id |-> "a1", type |-> "buffer", contentType |-> <<"i", "m", "g">>]
BinaryFile   == [id |-> "a2", type |-> "file",   contentType |-> <<"i", "m", "g">>]
TextBuffer   == [id |-> "a3", type |-> "buffer",
                 contentType |-> <<"t", "e", "x", "t", "/", "x">>]
JsonFile     == [id |-> "a4", type |-> "file",
                 contentType |-> <<" ", "A", "+", "J", "S", "O", "N">>]
AttachmentOrder == <<BinaryBuffer, BinaryFile, TextBuffer, JsonFile>>

\* content types around the test of _uploadAttachment: each prefix and suffix
\* it looks for, in upper case, within blanks, and nearly there
MimeTypeCases ==
  {<<"i", "m", "g">>,
   <<"j", "s", "o", "n">>,
   <<"t", "e", "x", "t", "/", "x">>,
   <<"T", "E", "X", "T", "/", "x">>,
   <<" ", "t", "e", "x", "t", "/", "x">>,
   <<"a", "t", "e", "x", "t", "/">>,
   <<" ", "A", "+", "J", "S", "O", "N">>,
   <<"a", "+", "t", "e", "x", "t">>,
   <<"a", "+", "x", "m", "l", " ">>,
   <<"a", "+", "x", "m", "l", "x">>}

\* one payload, attached from a buffer or from a file under each of the
\* content types
AttachmentCases == [id : {"a5"}, type : {"buffer", "file"}, contentType : MimeTypeCases]

\* compressable, evaluated once for each content type in use
ContentTypes == {AttachmentOrder[k].contentType : k \in DOMAIN AttachmentOrder}
                  \cup MimeTypeCases
isCompressable == [contentType \in ContentTypes |-> compressable(contentType)]

\* the file attachment that is streamed: the job reads the file on every attempt
streamed(a) == ~isCompressable[a.contentType] /\ a.type = "file"

\* the PUT request of _uploadReport
reportRequest ==
  [url |-> "presignedReportUrl", contentType |-> "application/json",
   contentEncoding |-> "br", body |-> compressTextAsync("report")]

\* the PUT request of _uploadAttachment
attachmentRequest(a) ==
  IF streamed(a)
  THEN [url |-> a.id, contentType |-> a.contentType,
        contentEncoding |-> UNDEFINED, body |-> Raw(a.id)]
  ELSE [url |-> a.id, contentType |-> a.contentType,
        contentEncoding |-> IF isCompressable[a.contentType] THEN "br" ELSE UNDEFINED,
        body |-> IF isCompressable[a.contentType]
                 THEN compressTextAsync(a.id) ELSE Raw(a.id)]

\* upload 0 is the report, upload k the k-th attachment
Uploads == 0..Len(attachments)
requestOf(u) == IF u = 0 THEN reportRequest ELSE attachmentRequest(attachments[u])

(***************************************************************************)
(* One upload of the transfer phase                                        *)
(*   stage  unstarted | prep (readFile / compressTextAsync awaited before  *)
(*          retryWithBackoff) | reading (the job awaits readFile) |        *)
(*          fetching (the job awaits fetch) | sleeping | resolved |        *)
(*          rejected                                                       *)
(*   r      the retryWithBackoff call                                      *)
(*   sent   the distinct PUT requests issued                               *)
(*   puts   the number of PUT requests issued                              *)
(*   fails  the number of failed responses received                        *)
(***************************************************************************)
UploadNew == [stage |-> "unstarted", r |-> RetryNew, sent |-> {}, puts |-> 0, fails |-> 0]

\* fetch(uploadUrl, {method: 'PUT', ...}) is issued
fetchPut(up, req) ==
  [up EXCEPT !.stage = "fetching", !.sent = @ \cup {req}, !.puts = @ + 1]

\* the job of upload u is invoked: the streamed file is read first
invokeJob(up, u) ==
  IF u # 0 /\ streamed(attachments[u])
  THEN [up EXCEPT !.stage = "reading"]
  ELSE fetchPut(up, requestOf(u))

\* _uploadReport / _uploadAttachment is called, up to its first await
startUpload(u) ==
  IF u = 0 \/ isCompressable[attachments[u].contentType] \/
     (attachments[u].type = "file" /\ ~streamed(attachments[u]))
  THEN [UploadNew EXCEPT !.stage = "prep"]
  ELSE invokeJob([UploadNew EXCEPT !.r = retryCall(@)], u)

PutOutcomes ==
  {[ok |-> TRUE, v |-> "void"], [ok |-> FALSE, v |-> "http"], [ok |-> FALSE, v |-> "net"]}

stageOf(r) == IF r.st = "running" THEN "fetching" ELSE r.st

\* a mutant of putSettled: the uploads share one loop position
putSettledSharedLoop(ups, u, o) ==
  LET r == retrySettle(ups[u].r, HTTP_BACKOFF, o)
  IN  [v \in DOMAIN ups |->
         IF v = u THEN [ups[v] EXCEPT !.r = r, !.stage = stageOf(r)]
         ELSE IF o.ok THEN ups[v]
         ELSE [ups[v] EXCEPT !.r.i = Min(@ + 1, Len(HTTP_BACKOFF))]]

\* the fetch of upload u settles with o; the job throws unless response.ok
putSettled(ups, u, o) ==
  LET r == retrySettle(ups[u].r, HTTP_BACKOFF, o)
  IN  [ups EXCEPT ![u].r = r, ![u].stage = stageOf(r)]

(***************************************************************************)
(* ReportUpload._api and the settling of uploadReport                      *)
(***************************************************************************)
\* what the transport does with a POST of _api: an OK response with a JSON
\* body, an OK response whose body is null, a non-OK response, or a network
\* error (fetch or response.json() rejects)
ApiOutcomes == {"ok", "empty", "nonok", "neterr"}

\* _api never throws: it returns {result, error}
api(o) == [result |-> IF o = "ok" THEN "json" ELSE UNDEFINED,
           error  |-> IF o \in {"nonok", "neterr"} THEN o ELSE UNDEFINED]

\* response?.error || !response.result
apiFailed(response) == ~Falsy(response.error) \/ Falsy(response.result)

\* what requestGitHubOIDCToken can meet: a token, a non-OK response, a
\* response without value, a network error
OIDCOutcomes == {"ok", "nonok", "novalue", "neterr"}

Pending == [kind |-> "pending", status |-> "none", why |-> "none"]
Skipped == [kind |-> "resolved", status |-> "skipped", why |-> "no token"]
Success == [kind |-> "resolved", status |-> "success", why |-> "none"]

\* a mutant of failure: the error is rethrown whatever the options say
failureAlwaysThrown(opts, why) == [kind |-> "rejected", status |-> "none", why |-> why]

\* a mutant of failure: the error is never rethrown
failureNeverThrown(opts, why) == [kind |-> "resolved", status |-> "failed", why |-> why]

\* a failure of the upload: thrown when options.throwOnFailure, else returned
failure(opts, why) ==
  IF opts.throwOnFailure
  THEN [kind |-> "rejected", status |-> "none", why |-> why]
  ELSE [kind |-> "resolved", status |-> "failed", why |-> why]

NoRequests ==
  [oidc |-> "none", oidcAudience |-> UNDEFINED, start |-> "none",
   startToken |-> UNDEFINED, presign |-> "none", finish |-> "none",
   posts |-> [start |-> 0, presign |-> 0, finish |-> 0]]

\* isGitHubOIDCAvailable()
isGitHubOIDCAvailable(e) ==
  ~Falsy(e.ACTIONS_ID_TOKEN_REQUEST_URL) /\ ~Falsy(e.ACTIONS_ID_TOKEN_REQUEST_TOKEN)

\* options?.flakinessAccessToken ?? process.env['FLAKINESS_ACCESS_TOKEN']
initialToken(opts, e) == Nullish(opts.flakinessAccessToken, e.FLAKINESS_ACCESS_TOKEN)

\* options?.githubOIDCAudience ?? process.env['FLAKINESS_OIDC_AUDIENCE']
oidcAudience(opts, e) == Nullish(opts.githubOIDCAudience, e.FLAKINESS_OIDC_AUDIENCE)

\* a mutant of allFulfilled: Promise.any instead of Promise.all
anyFulfilled(ups) == \E v \in DOMAIN ups : ups[v].stage = "resolved"

\* Promise.all over the started uploads is fulfilled
allFulfilled(ups) == \A v \in DOMAIN ups : ups[v].stage = "resolved"

(***************************************************************************)
(* uploadReport                                                            *)
(***************************************************************************)
\* new ReportUpload(...).upload() up to its first await: POST /api/upload/start
BeginUpload(token, n) ==
  /\ accessToken' = token
  /\ net' = [n EXCEPT !.start = "sent", !.startToken = token, !.posts.start = @ + 1]
  /\ pc' = "start"
  /\ UNCHANGED outcome

\* uploadReport is called with a usable access token
UploadWithToken ==
  /\ pc = "init"
  /\ ~Falsy(initialToken(options, environ))
  /\ BeginUpload(initialToken(options, environ), net)
  /\ UNCHANGED <<options, environ, report, attachments, urls, uploads, rvars, nvars, tvars, avars, svars>>

\* uploadReport is called without a token, OIDC is available and an audience is given
UploadRequestsOIDC ==
  /\ pc = "init"
  /\ Falsy(initialToken(options, environ))
  /\ isGitHubOIDCAvailable(environ)
  /\ ~Falsy(oidcAudience(options, environ))
  /\ accessToken' = initialToken(options, environ)
  /\ net' = [net EXCEPT !.oidc = "sent",
                        !.oidcAudience = oidcAudience(options, environ)]
  /\ pc' = "oidc"
  /\ UNCHANGED <<options, environ, report, attachments, outcome, urls, uploads, rvars, nvars, tvars, avars, svars>>

\* uploadReport is called without a token and without a way to get one
UploadSkipped ==
  /\ pc = "init"
  /\ Falsy(initialToken(options, environ))
  /\ ~(isGitHubOIDCAvailable(environ) /\ ~Falsy(oidcAudience(options, environ)))
  /\ accessToken' = initialToken(options, environ)
  /\ outcome' = Skipped
  /\ pc' = "done"
  /\ UNCHANGED <<options, environ, report, attachments, net, urls, uploads, rvars, nvars, tvars, avars, svars>>

\* requestGitHubOIDCToken returns the token
OIDCTokenReceived ==
  /\ pc = "oidc"
  /\ BeginUpload("oidc-jwt", [net EXCEPT !.oidc = "ok"])
  /\ UNCHANGED <<options, environ, report, attachments, urls, uploads, rvars, nvars, tvars, avars, svars>>

\* requestGitHubOIDCToken throws
OIDCTokenFailed ==
  /\ pc = "oidc"
  /\ \E o \in OIDCOutcomes \ {"ok"} :
       /\ net' = [net EXCEPT !.oidc = o]
       /\ outcome' = failure(options, "oidc")
  /\ pc' = "done"
  /\ UNCHANGED <<options, environ, report, attachments, accessToken, urls, uploads, rvars, nvars, tvars, avars, svars>>

(***************************************************************************)
(* ReportUpload.upload                                                     *)
(***************************************************************************)
\* the response to POST /api/upload/start is an error or has no result
StartFailed ==
  /\ pc = "start"
  /\ \E o \in ApiOutcomes :
       /\ apiFailed(api(o))
       /\ net' = [net EXCEPT !.start = o]
       /\ outcome' = failure(options, "start")
  /\ pc' = "done"
  /\ UNCHANGED <<options, environ, report, attachments, accessToken, urls, uploads, rvars, nvars, tvars, avars, svars>>

\* the response to POST /api/upload/start is OK: POST /api/upload/attachments
StartSucceeded ==
  /\ pc = "start"
  /\ ~apiFailed(api("ok"))
  /\ net' = [net EXCEPT !.start = "ok", !.presign = "sent", !.posts.presign = @ + 1]
  /\ pc' = "presign"
  /\ UNCHANGED <<options, environ, report, attachments, accessToken, outcome, urls, uploads, rvars, nvars, tvars, avars, svars>>

\* the response to POST /api/upload/attachments is an error or has no result
PresignFailed ==
  /\ pc = "presign"
  /\ \E o \in ApiOutcomes :
       /\ apiFailed(api(o))
       /\ net' = [net EXCEPT !.presign = o]
       /\ outcome' = failure(options, "presign")
  /\ pc' = "done"
  /\ UNCHANGED <<options, environ, report, attachments, accessToken, urls, uploads, rvars, nvars, tvars, avars, svars>>

\* the first attachment without a presigned URL among ids, 0 when there is none
firstMissing(ids) ==
  LET missing == {k \in 1..Len(attachments) : attachments[k].id \notin ids}
  IN  IF missing = {} THEN 0 ELSE CHOOSE k \in missing : \A j \in missing : k <= j

\* a mutant of startedUploads: the uploads are started before the URLs are looked at
startedUploadsAll(ids) == [u \in Uploads |-> startUpload(u)]

\* the uploads the array literal given to Promise.all starts, left to right:
\* _uploadReport first, then the attachments up to the first one without URL
startedUploads(ids) ==
  [u \in Uploads |->
     IF u = 0 \/ firstMissing(ids) = 0 \/ u < firstMissing(ids)
     THEN startUpload(u) ELSE UploadNew]

\* the response to POST /api/upload/attachments is OK and every attachment
\* has a presigned URL: the transfer phase starts, Promise.all is awaited
PresignSucceeded ==
  /\ pc = "presign"
  /\ ~apiFailed(api("ok"))
  /\ \E ids \in SUBSET {attachments[k].id : k \in 1..Len(attachments)} :
       /\ firstMissing(ids) = 0
       /\ urls' = ids
       /\ uploads' = startedUploads(ids)
  /\ net' = [net EXCEPT !.presign = "ok"]
  /\ pc' = "transfer"
  /\ UNCHANGED <<options, environ, report, attachments, accessToken, outcome, rvars, nvars, tvars, avars, svars>>

\* the response is OK but an attachment has no presigned URL: the map
\* callback throws, after the uploads before it were started
PresignMissingUrl ==
  /\ pc = "presign"
  /\ ~apiFailed(api("ok"))
  /\ \E ids \in SUBSET {attachments[k].id : k \in 1..Len(attachments)} :
       /\ firstMissing(ids) # 0
       /\ urls' = ids
       /\ uploads' = startedUploads(ids)
  /\ net' = [net EXCEPT !.presign = "ok"]
  /\ outcome' = failure(options, "missing url")
  /\ pc' = "done"
  /\ UNCHANGED <<options, environ, report, attachments, accessToken, rvars, nvars, tvars, avars, svars>>

\* readFile / compressTextAsync before retryWithBackoff is done: first attempt
UploadPrepared(u) ==
  /\ uploads[u].stage = "prep"
  /\ uploads' = [uploads EXCEPT ![u] = invokeJob([@ EXCEPT !.r = retryCall(@)], u)]
  /\ UNCHANGED <<options, environ, report, attachments, pc, accessToken, outcome, net, urls, rvars, nvars, tvars, avars, svars>>

\* the job of a streamed file has read the file: the PUT is issued (the file
\* is taken to exist and to keep its bytes, as its id is the hash of them)
FileRead(u) ==
  /\ uploads[u].stage = "reading"
  /\ uploads' = [uploads EXCEPT ![u] = fetchPut(@, requestOf(u))]
  /\ UNCHANGED <<options, environ, report, attachments, pc, accessToken, outcome, net, urls, rvars, nvars, tvars, avars, svars>>

\* a mutant of PutSettled: the finish request is sent once every upload has
\* settled, whatever became of uploadReport
PutSettledFinishesAnyway(u) ==
  /\ uploads[u].stage = "fetching"
  /\ \E o \in PutOutcomes :
       LET ups == [putSettled(uploads, u, o) EXCEPT
                     ![u].fails = IF o.ok THEN @ ELSE @ + 1]
       IN  /\ uploads' = ups
           /\ IF pc = "transfer" /\ ups[u].stage = "rejected"
              THEN /\ outcome' = failure(options, "put")
                   /\ pc' = "done"
                   /\ UNCHANGED net
              ELSE IF \A v \in Uploads : ups[v].stage \in {"resolved", "rejected"}
              THEN /\ net' = [net EXCEPT !.finish = "sent", !.posts.finish = @ + 1]
                   /\ pc' = IF pc = "transfer" THEN "finish" ELSE pc
                   /\ UNCHANGED outcome
              ELSE UNCHANGED <<pc, outcome, net>>
  /\ UNCHANGED <<options, environ, report, attachments, accessToken, urls, rvars, nvars, tvars, avars, svars>>

\* the PUT of upload u gets its response (or a network error)
PutSettled(u) ==
  /\ uploads[u].stage = "fetching"
  /\ \E o \in PutOutcomes :
       LET ups == [putSettled(uploads, u, o) EXCEPT
                     ![u].fails = IF o.ok THEN @ ELSE @ + 1]
       IN  /\ uploads' = ups
           /\ IF pc = "transfer" /\ ups[u].stage = "rejected"
              THEN \* Promise.all rejects, upload() throws
                   /\ outcome' = failure(options, "put")
                   /\ pc' = "done"
                   /\ UNCHANGED net
              ELSE IF pc = "transfer" /\ allFulfilled(ups)
              THEN \* Promise.all is fulfilled: POST /api/upload/finish
                   /\ net' = [net EXCEPT !.finish = "sent", !.posts.finish = @ + 1]
                   /\ pc' = "finish"
                   /\ UNCHANGED outcome
              ELSE UNCHANGED <<pc, outcome, net>>
  /\ UNCHANGED <<options, environ, report, attachments, accessToken, urls, rvars, nvars, tvars, avars, svars>>

\* the setTimeout of retryWithBackoff fires: next attempt
TimerFires(u) ==
  /\ uploads[u].stage = "sleeping"
  /\ uploads' = [uploads EXCEPT ![u] = invokeJob([@ EXCEPT !.r = retryWake(@)], u)]
  /\ UNCHANGED <<options, environ, report, attachments, pc, accessToken, outcome, net, urls, rvars, nvars, tvars, avars, svars>>

\* the response to POST /api/upload/finish arrives; upload() does not look at it
FinishSettled ==
  /\ pc = "finish"
  /\ \E o \in ApiOutcomes : net' = [net EXCEPT !.finish = o]
  /\ outcome' = Success
  /\ pc' = "done"
  /\ UNCHANGED <<options, environ, report, attachments, accessToken, urls, uploads, rvars, nvars, tvars, avars, svars>>

PipelineNext ==
  \/ UploadWithToken \/ UploadRequestsOIDC \/ UploadSkipped
  \/ OIDCTokenReceived \/ OIDCTokenFailed
  \/ StartFailed \/ StartSucceeded
  \/ PresignFailed \/ PresignSucceeded \/ PresignMissingUrl
  \/ \E u \in Uploads : UploadPrepared(u)
  \/ \E u \in Uploads : FileRead(u)
  \/ \E u \in Uploads : PutSettled(u)
  \/ \E u \in Uploads : TimerFires(u)
  \/ FinishSettled

(***************************************************************************)
(* Reports                                                                 *)
(*                                                                         *)
(* A JavaScript object is a record that has a field exactly when the       *)
(* object has the property with a value other than undefined: this is the  *)
(* object as JSON.stringify writes it.  An array is a sequence.  A report  *)
(* is a tree: no object occurs twice in it.  Indices into                  *)
(* report.environments count from 0, as in the code.                       *)
(***************************************************************************)
\* o.k ?? d
Get(o, k, d) == IF k \in DOMAIN o THEN o[k] ELSE d

\* {...o, k: v}
With(o, k, v) == [f \in DOMAIN o \cup {k} |-> IF f = k THEN v ELSE o[f]]

\* {...o, k: undefined} for every k of ks; also `delete o.k`
Without(o, ks) == [f \in DOMAIN o \ ks |-> o[f]]

\* o.k && o.k.length
NonEmpty(o, k) == k \in DOMAIN o /\ o[k] # <<>>

\* Array.prototype.flat, one level
RECURSIVE flat(_)
flat(arrays) == IF arrays = <<>> THEN <<>> ELSE Head(arrays) \o flat(Tail(arrays))

\* [...new Set(values)]: the distinct values in the order of their first occurrence
RECURSIVE insertionOrder(_, _)
insertionOrder(values, seen) ==
  IF values = <<>> THEN <<>>
  ELSE IF Head(values) \in seen THEN insertionOrder(Tail(values), seen)
  ELSE <<Head(values)>> \o insertionOrder(Tail(values), seen \cup {Head(values)})

newSet(values) == insertionOrder(values, {})

\* stableObjectHash: equal for two values exactly when their contents are
\* equal, whatever the order of their properties
stableObjectHash(value) == <<"hash", value>>

\* the string ''
EmptyString == <<>>

\* the string 'suiteless'
Suiteless == <<"suiteless">>

\* what Map.get and an array access return for a key or index that is not there
NoEnvId == <<"undefined">>
NoEnvironment == [undefined |-> TRUE]

computeEnvId(env) == stableObjectHash(env)

\* suite.location?.file ?? ''
locationFile(node) == IF "location" \in DOMAIN node THEN node.location.file ELSE ""

\* the line of the suite is part of its identity too
computeSuiteIdWithLine(suite, parentSuiteId) ==
  stableObjectHash([parentSuiteId |-> parentSuiteId,
                    type |-> suite.type,
                    file |-> locationFile(suite),
                    line |-> IF "location" \in DOMAIN suite THEN suite.location.line ELSE 0,
                    title |-> suite.title])

computeSuiteId(suite, parentSuiteId) ==
  stableObjectHash([parentSuiteId |-> parentSuiteId,
                    type |-> suite.type,
                    file |-> locationFile(suite),
                    title |-> suite.title])

computeTestId(test, suiteId) ==
  stableObjectHash([suiteId |-> suiteId,
                    file |-> locationFile(test),
                    title |-> test.title])

(***************************************************************************)
(* deduplicateTestsSuitesEnvironments: the traversal                       *)
(*                                                                         *)
(* visitTests and visitSuite fill the maps gSuites, gTests,                *)
(* gSuiteChildren, gSuiteTests and the set usedEnvIds.  The model keeps    *)
(* the calls of Map.set, Multimap.set and Set.add in the order in which    *)
(* the traversal makes them, as a log; the maps are read off the log.      *)
(* gSuiteIds, gTestIds and gEnvIds map an object to the id computed for    *)
(* it when it was visited.                                                 *)
(***************************************************************************)
\* visitTests, for one attempt: empty annotations, stdout and stderr are
\* deleted from the attempt itself
visitAttempt(attempt) ==
  Without(attempt, {k \in {"annotations", "stdout", "stderr"} :
                       k \in DOMAIN attempt /\ attempt[k] = <<>>})

\* the test as visitTests leaves it
visitTest(test) ==
  With(test, "attempts", [i \in 1..Len(test.attempts) |-> visitAttempt(test.attempts[i])])

visitTests(tests, suiteId) ==
  [i \in 1..Len(tests) |->
     [kind |-> "test", id |-> computeTestId(tests[i], suiteId),
      suiteId |-> suiteId, node |-> visitTest(tests[i])]]

RECURSIVE visitSuite(_, _)
RECURSIVE visitChildSuites(_, _)
\* the tests of the suite are visited before its child suites
visitSuiteOwnTestsFirst(suite, parentSuiteId) ==
  LET suiteId == computeSuiteId(suite, parentSuiteId)
  IN  <<[kind |-> "suite", id |-> suiteId, node |-> suite]>>
        \o visitTests(Get(suite, "tests", <<>>), suiteId)
        \o visitChildSuites(Get(suite, "suites", <<>>), suiteId)

visitSuite(suite, parentSuiteId) ==
  LET suiteId == computeSuiteId(suite, parentSuiteId)
  IN  <<[kind |-> "suite", id |-> suiteId, node |-> suite]>>
        \o visitChildSuites(Get(suite, "suites", <<>>), suiteId)
        \o visitTests(Get(suite, "tests", <<>>), suiteId)

\* the loop over suite.suites in visitSuite
visitChildSuites(suites, suiteId) ==
  IF suites = <<>> THEN <<>>
  ELSE visitSuite(Head(suites), suiteId)
         \o <<[kind |-> "child", id |-> computeSuiteId(Head(suites), suiteId),
               suiteId |-> suiteId]>>
         \o visitChildSuites(Tail(suites), suiteId)

\* the top of the traversal: the tests of the report, then its suites
RECURSIVE visitSuites(_)
visitSuites(suites) ==
  IF suites = <<>> THEN <<>>
  ELSE visitSuite(Head(suites), EmptyString) \o visitSuites(Tail(suites))

visit(rpt) ==
  visitTests(Get(rpt, "tests", <<>>), Suiteless)
    \o visitSuites(Get(rpt, "suites", <<>>))

\* the report object after the traversal
RECURSIVE visitedSuite(_)
visitedSuite(suite) ==
  LET tests == Get(suite, "tests", <<>>)
      suites == Get(suite, "suites", <<>>)
      s1 == IF "tests" \in DOMAIN suite
              THEN With(suite, "tests", [i \in 1..Len(tests) |-> visitTest(tests[i])])
              ELSE suite
  IN  IF "suites" \in DOMAIN suite
        THEN With(s1, "suites", [i \in 1..Len(suites) |-> visitedSuite(suites[i])])
        ELSE s1

visited(rpt) ==
  LET tests == Get(rpt, "tests", <<>>)
      suites == Get(rpt, "suites", <<>>)
      r1 == IF "tests" \in DOMAIN rpt
              THEN With(rpt, "tests", [i \in 1..Len(tests) |-> visitTest(tests[i])])
              ELSE rpt
  IN  IF "suites" \in DOMAIN rpt
        THEN With(r1, "suites", [i \in 1..Len(suites) |-> visitedSuite(suites[i])])
        ELSE r1

\* report.environments[attempt.environmentIdx ?? 0]
environmentOf(rpt, attempt) ==
  LET idx == Get(attempt, "environmentIdx", 0)
  IN  IF idx \in 0..(Len(rpt.environments) - 1)
        THEN rpt.environments[idx + 1]
        ELSE NoEnvironment

\* gEnvIds.get(env)
gEnvIds(env) == IF env = NoEnvironment THEN NoEnvId ELSE computeEnvId(env)

\* gEnvs.get(envId): the last environment of the report with this id
gEnvs(rpt, envId) ==
  LET at == {i \in 1..Len(rpt.environments) :
               computeEnvId(rpt.environments[i]) = envId}
  IN  IF at = {} THEN NoEnvironment
      ELSE rpt.environments[CHOOSE i \in at : \A j \in at : j <= i]

\* the indices of the environments of the report that the new report holds:
\* newEnvironments.map(envId => gEnvs.get(envId)) returns the objects of the
\* report themselves
sharedEnvironments(rpt, newEnvironments) ==
  {i \in 1..Len(rpt.environments) :
     /\ computeEnvId(rpt.environments[i]) \in {newEnvironments[n] : n \in 1..Len(newEnvironments)}
     /\ \A j \in (i + 1)..Len(rpt.environments) :
          computeEnvId(rpt.environments[j]) # computeEnvId(rpt.environments[i])}

\* gSuites.get(suiteId): the last suite visited with this id
gSuites(log, suiteId) ==
  LET at == {i \in 1..Len(log) : log[i].kind = "suite" /\ log[i].id = suiteId}
  IN  log[CHOOSE i \in at : \A j \in at : j <= i].node

\* a Map in place of the Multimap: the first test set for the id
gTestsFirstOnly(log, testId) ==
  LET hit(e) == e.kind = "test" /\ e.id = testId
  IN  <<SelectSeq(log, hit)[1].node>>

\* gTests.getAll(testId)
gTests(log, testId) ==
  LET hit(e) == e.kind = "test" /\ e.id = testId
      es == SelectSeq(log, hit)
  IN  [i \in 1..Len(es) |-> es[i].node]

\* the ids of gSuiteChildren.getAll(suiteId)
gSuiteChildren(log, suiteId) ==
  LET hit(e) == e.kind = "child" /\ e.suiteId = suiteId
      es == SelectSeq(log, hit)
  IN  [i \in 1..Len(es) |-> es[i].id]

\* the ids of gSuiteTests.getAll(suiteId)
gSuiteTests(log, suiteId) ==
  LET hit(e) == e.kind = "test" /\ e.suiteId = suiteId
      es == SelectSeq(log, hit)
  IN  [i \in 1..Len(es) |-> es[i].id]

\* the attempts in the order in which visitTests reaches them
visitedAttempts(log) ==
  LET isTest(e) == e.kind = "test"
      es == SelectSeq(log, isTest)
  IN  flat([i \in 1..Len(es) |-> es[i].node.attempts])

\* the ids of all the environments of the report
usedEnvIdsOfAll(rpt, log) ==
  newSet([i \in 1..Len(rpt.environments) |-> computeEnvId(rpt.environments[i])])

\* [...usedEnvIds]
usedEnvIds(rpt, log) ==
  LET attempts == visitedAttempts(log)
  IN  newSet([i \in 1..Len(attempts) |-> gEnvIds(environmentOf(rpt, attempts[i]))])

\* envIdToIndex.get(envId)
envIdToIndex(newEnvironments, envId) ==
  (CHOOSE i \in 1..Len(newEnvironments) : newEnvironments[i] = envId) - 1

(***************************************************************************)
(* deduplicateTestsSuitesEnvironments: the new report                      *)
(*   c.report           the report passed in, after the traversal          *)
(*   c.log              the traversal                                      *)
(*   c.newEnvironments  [...usedEnvIds]                                    *)
(***************************************************************************)
\* the attempt keeps the index it had in the report passed in
transformAttemptKeepsIdx(c, attempt) == attempt

\* {...attempt, environmentIdx: envIdToIndex.get(gEnvIds.get(env))}
transformAttempt(c, attempt) ==
  With(attempt, "environmentIdx",
       envIdToIndex(c.newEnvironments, gEnvIds(environmentOf(c.report, attempt))))

\* the merged test takes its location and tags from the last occurrence
transformTestFromLast(c, testId) ==
  LET tests == gTests(c.log, testId)
      last == tests[Len(tests)]
      attempts == flat([i \in 1..Len(tests) |-> tests[i].attempts])
  IN  [f \in {"title", "location", "tags"} \cap DOMAIN last |-> last[f]]
        @@ [attempts |-> [i \in 1..Len(attempts) |-> transformAttempt(c, attempts[i])]]

\* the merged test of transformTests for one test id
transformTest(c, testId) ==
  LET tests == gTests(c.log, testId)
      tags == flat([i \in 1..Len(tests) |-> Get(tests[i], "tags", <<>>)])
      attempts == flat([i \in 1..Len(tests) |-> tests[i].attempts])
      t0 == [title |-> tests[1].title,
             attempts |-> [i \in 1..Len(attempts) |-> transformAttempt(c, attempts[i])]]
      t1 == IF "location" \in DOMAIN tests[1] THEN With(t0, "location", tests[1].location) ELSE t0
  IN  IF tags # <<>> THEN With(t1, "tags", tags) ELSE t1

\* testIds holds gTestIds.get(test) for every test of the argument
transformTests(c, testIds) ==
  LET ids == newSet(testIds)
  IN  [i \in 1..Len(ids) |-> transformTest(c, ids[i])]

\* suiteIds holds gSuiteIds.get(suite) for every suite of the argument
RECURSIVE transformSuites(_, _)
transformSuites(c, suiteIds) ==
  LET ids == newSet(suiteIds)
      node(suiteId) ==
        LET suite == gSuites(c.log, suiteId)
            s0 == [title |-> suite.title,
                   type |-> suite.type,
                   suites |-> transformSuites(c, gSuiteChildren(c.log, suiteId)),
                   tests |-> transformTests(c, gSuiteTests(c.log, suiteId))]
        IN  IF "location" \in DOMAIN suite THEN With(s0, "location", suite.location) ELSE s0
  IN  [i \in 1..Len(ids) |-> node(ids[i])]

deduplicateTestsSuitesEnvironments(rpt) ==
  LET log == visit(rpt)
      newEnvironments == usedEnvIds(rpt, log)
      c == [report |-> visited(rpt), log |-> log, newEnvironments |-> newEnvironments]
      tests == Get(rpt, "tests", <<>>)
      suites == Get(rpt, "suites", <<>>)
      r1 == With(rpt, "environments",
                 [i \in 1..Len(newEnvironments) |-> gEnvs(rpt, newEnvironments[i])])
      r2 == With(r1, "suites",
                 transformSuites(c, [i \in 1..Len(suites) |->
                                       computeSuiteId(suites[i], EmptyString)]))
  IN  With(r2, "tests",
           transformTests(c, [i \in 1..Len(tests) |-> computeTestId(tests[i], Suiteless)]))

(***************************************************************************)
(* normalizeReport: the fields that hold their default value               *)
(***************************************************************************)
RECURSIVE cleanupTestStep(_)
cleanupTestStep(step) ==
  LET s1 == IF "duration" \in DOMAIN step /\ step.duration = 0
              THEN Without(step, {"duration"}) ELSE step
  IN  IF NonEmpty(step, "steps")
        THEN With(s1, "steps", [i \in 1..Len(step.steps) |-> cleanupTestStep(step.steps[i])])
        ELSE Without(s1, {"steps"})

cleanupAttempt(attempt) ==
  LET dropped ==
        {k \in {"status", "expectedStatus"} : k \in DOMAIN attempt /\ attempt[k] = "passed"}
          \cup {k \in {"environmentIdx", "duration"} : k \in DOMAIN attempt /\ attempt[k] = 0}
          \cup {k \in {"stdout", "stderr", "attachments", "steps"} : ~NonEmpty(attempt, k)}
      a1 == Without(attempt, dropped)
  IN  IF "steps" \in DOMAIN a1
        THEN With(a1, "steps", [i \in 1..Len(a1.steps) |-> cleanupTestStep(a1.steps[i])])
        ELSE a1

cleanupTest(test) ==
  With(test, "attempts", [i \in 1..Len(test.attempts) |-> cleanupAttempt(test.attempts[i])])

RECURSIVE cleanupSuite(_)
cleanupSuite(suite) ==
  LET s1 == IF NonEmpty(suite, "tests")
              THEN With(suite, "tests",
                        [i \in 1..Len(suite.tests) |-> cleanupTest(suite.tests[i])])
              ELSE Without(suite, {"tests"})
  IN  IF NonEmpty(suite, "suites")
        THEN With(s1, "suites", [i \in 1..Len(suite.suites) |-> cleanupSuite(suite.suites[i])])
        ELSE Without(s1, {"suites"})

normalizeReport(rpt) ==
  LET deduplicated == deduplicateTestsSuitesEnvironments(rpt)
      r1 == IF NonEmpty(deduplicated, "tests")
              THEN With(deduplicated, "tests",
                        [i \in 1..Len(deduplicated.tests) |-> cleanupTest(deduplicated.tests[i])])
              ELSE Without(deduplicated, {"tests"})
  IN  IF NonEmpty(deduplicated, "suites")
        THEN With(r1, "suites",
                  [i \in 1..Len(deduplicated.suites) |-> cleanupSuite(deduplicated.suites[i])])
        ELSE Without(r1, {"suites"})

(***************************************************************************)
(* The reports given to normalizeReport                                    *)
(*                                                                         *)
(* A report is put together from at most MaxTests pieces, as the shards of *)
(* a run are: every piece brings one occurrence of a test, at the top of   *)
(* the report or in an occurrence of a suite.  The attempts of the k-th    *)
(* piece have duration k, which tells the attempts of two pieces apart.    *)
(***************************************************************************)
MaxTests == 3

EnvA == [name |-> "linux"]
EnvB == [name |-> "darwin"]

\* report.environments: the first and the last entry have the same content
Environments == <<EnvA, EnvB, EnvA>>

\* environments as createEnvironment makes them, the first and the last of
\* the same name, systemData and userSuppliedData and of different opaqueData
EnvOf(opaqueData) ==
  [name |-> "CI", systemData |-> [osName |-> "linux"], userSuppliedData |-> [shard |-> "1"],
   opaqueData |-> opaqueData]
OpaqueEnvironments == <<EnvOf("run 1"), EnvB, EnvOf("run 2")>>

\* an attempt without environmentIdx
NoIdx == -1

Location(file, line) == [file |-> file, line |-> line, column |-> 1]

\* an attempt of piece k in the environment at index idx
Attempt(k, idx) ==
  IF idx = NoIdx THEN [duration |-> k] ELSE [environmentIdx |-> idx, duration |-> k]

TestNode(title, file, line, tags, attempts) ==
  LET t0 == [title |-> title, location |-> Location(file, line), attempts |-> attempts]
  IN  IF tags # <<>> THEN With(t0, "tags", tags) ELSE t0

SuiteNode(title, type, file, line, suites, tests) ==
  LET s0 == [title |-> title, type |-> type, location |-> Location(file, line)]
      s1 == IF suites # <<>> THEN With(s0, "suites", suites) ELSE s0
  IN  IF tests # <<>> THEN With(s1, "tests", tests) ELSE s1

\* the index after idx, cyclically
nextIdx(idx) == (idx + 1) % Len(Environments)

\* the pieces that differ in where the test is and in the environments used:
\* the test t at the top; the suite s with the test t run twice; the suite
\* s with the test t in its child suite n and its own test u
EnvPieceKinds == {"top t", "suite", "nested"}

\* the pieces that differ in the fields of the suite and of the test: the
\* test t at the top (plain; with another line and tags; in another file),
\* and in the suite s (plain; with tags; with another line of the suite and
\* of the test and tags; with another type of the suite; with another file
\* of the suite)
IdPieceKinds == {"t", "t line", "t file", "s", "s tags", "s line", "s type", "s file"}

\* what piece k adds to report.tests
pieceTests(kind, k, idx) ==
  CASE kind = "top t" -> <<TestNode("t", "a.spec.ts", 3, <<>>, <<Attempt(k, idx)>>)>>
    [] kind = "top u" -> <<TestNode("u", "a.spec.ts", 3, <<>>, <<Attempt(k, idx)>>)>>
    [] kind = "t" -> <<TestNode("t", "a.spec.ts", 3, <<>>, <<Attempt(k, idx)>>)>>
    [] kind = "t line" -> <<TestNode("t", "a.spec.ts", 5, <<"slow", "smoke">>, <<Attempt(k, idx)>>)>>
    [] kind = "t file" -> <<TestNode("t", "b.spec.ts", 3, <<"smoke">>, <<Attempt(k, idx)>>)>>
    [] OTHER -> <<>>

\* what piece k adds to report.suites
pieceSuites(kind, k, idx) ==
  CASE kind = "suite" ->
         <<SuiteNode("s", "describe", "a.spec.ts", 1, <<>>,
             <<TestNode("t", "a.spec.ts", 3, <<>>,
                        <<Attempt(k, idx), Attempt(k, nextIdx(idx))>>)>>)>>
    [] kind = "nested" ->
         <<SuiteNode("s", "describe", "a.spec.ts", 1,
             <<SuiteNode("n", "describe", "a.spec.ts", 2, <<>>,
                 <<TestNode("t", "a.spec.ts", 3, <<>>, <<Attempt(k, idx)>>)>>)>>,
             <<TestNode("u", "a.spec.ts", 3, <<>>, <<Attempt(k, nextIdx(idx))>>)>>)>>
    [] kind = "s" ->
         <<SuiteNode("s", "describe", "a.spec.ts", 1, <<>>,
             <<TestNode("t", "a.spec.ts", 3, <<>>, <<Attempt(k, idx)>>)>>)>>
    [] kind = "s tags" ->
         <<SuiteNode("s", "describe", "a.spec.ts", 1, <<>>,
             <<TestNode("t", "a.spec.ts", 3, <<"smoke">>, <<Attempt(k, idx)>>)>>)>>
    [] kind = "s line" ->
         <<SuiteNode("s", "describe", "a.spec.ts", 9, <<>>,
             <<TestNode("t", "a.spec.ts", 5, <<"slow">>, <<Attempt(k, idx)>>)>>)>>
    [] kind = "s type" ->
         <<SuiteNode("s", "file", "a.spec.ts", 1, <<>>,
             <<TestNode("t", "a.spec.ts", 3, <<>>, <<Attempt(k, idx)>>)>>)>>
    [] kind = "s file" ->
         <<SuiteNode("s", "describe", "b.spec.ts", 1, <<>>,
             <<TestNode("t", "a.spec.ts", 3, <<>>, <<Attempt(k, idx)>>)>>)>>
    [] OTHER -> <<>>

\* the pieces whose attempts use the environments of the report
EnvPieces == [kind : EnvPieceKinds, idx : 0..(Len(Environments) - 1)]

\* the pieces whose attempts have no environmentIdx
IdPieces == [kind : IdPieceKinds, idx : {NoIdx}]

\* the pieces one of whose attempts may have an environmentIdx that is not
\* an index of report.environments, with the tests t and u at the top
BadPieces == [kind : {"top t", "top u", "suite"}, idx : 0..Len(Environments)]

PieceLists(Pieces, maxLen) == UNION {[1..len -> Pieces] : len \in 0..maxLen}

\* the report made of the pieces
PieceReport(pieces) ==
  LET tests == flat([k \in 1..Len(pieces) |-> pieceTests(pieces[k].kind, k, pieces[k].idx)])
      suites == flat([k \in 1..Len(pieces) |-> pieceSuites(pieces[k].kind, k, pieces[k].idx)])
      r0 == [environments |-> Environments, category |-> "playwright"]
      r1 == IF tests # <<>> THEN With(r0, "tests", tests) ELSE r0
  IN  IF suites # <<>> THEN With(r1, "suites", suites) ELSE r1

(***************************************************************************)
(* The reports of one test with one attempt, whose fields are absent, hold *)
(* their default value, or hold another value                              *)
(***************************************************************************)
Shapes == {"absent", "default", "other"}

ScalarFields == {"status", "expectedStatus", "environmentIdx", "duration"}
ArrayFields == {"stdout", "stderr", "annotations", "errors", "attachments", "steps", "tags"}

DefaultValue ==
  [status |-> "passed", expectedStatus |-> "passed", environmentIdx |-> 0, duration |-> 0,
   stdout |-> <<>>, stderr |-> <<>>, annotations |-> <<>>, errors |-> <<>>,
   attachments |-> <<>>, steps |-> <<>>, tags |-> <<>>]

\* a step without duration and substeps in a step with a substep
Steps ==
  <<[title |-> "click", duration |-> 0, steps |-> <<>>],
    [title |-> "expect", duration |-> 7,
     steps |-> <<[title |-> "poll", duration |-> 0], [title |-> "match", steps |-> <<>>]>>]>>

OtherValue ==
  [status |-> "failed", expectedStatus |-> "skipped", environmentIdx |-> 1, duration |-> 5,
   stdout |-> <<[text |-> "out"]>>, stderr |-> <<[text |-> "err"]>>,
   annotations |-> <<[type |-> "issue"]>>, errors |-> <<[message |-> "boom"]>>,
   attachments |-> <<[name |-> "trace", id |-> "abc"]>>, steps |-> Steps,
   tags |-> <<"smoke">>]

\* the object that has the fields of fields chosen present, with their values
Shaped(fields, shape) ==
  [f \in {g \in fields : shape[g] # "absent"} |->
     IF shape[f] = "default" THEN DefaultValue[f] ELSE OtherValue[f]]

\* the scalar fields vary while the arrays are absent, or the arrays vary
\* while the scalar fields hold their defaults
AttemptShapes ==
  {scalars @@ [f \in ArrayFields |-> "absent"] : scalars \in [ScalarFields -> Shapes]}
    \cup {[f \in ScalarFields |-> "default"] @@ arrays : arrays \in [ArrayFields -> Shapes]}

\* at the top of the report, or in a suite, where the report and the suite
\* have empty arrays for the tests and the suites they do not have
ShapedReport(shape, inSuite) ==
  LET attempt == Shaped((ScalarFields \cup ArrayFields) \ {"tags"}, shape)
      test == [title |-> "t", attempts |-> <<attempt>>] @@ Shaped({"tags"}, shape)
      r0 == [environments |-> Environments, category |-> "playwright"]
  IN  IF inSuite
        THEN r0 @@ [tests |-> <<>>,
                    suites |-> <<[title |-> "s", type |-> "describe",
                                  suites |-> <<>>, tests |-> <<test>>]>>]
        ELSE r0 @@ [tests |-> <<test>>]

\* the attempts of a suite: those of its child suites, then those of its tests
RECURSIVE suiteAttempts(_)
suiteAttempts(suite) ==
  LET tests == Get(suite, "tests", <<>>)
      suites == Get(suite, "suites", <<>>)
  IN  flat([i \in 1..Len(suites) |-> suiteAttempts(suites[i])])
        \o flat([i \in 1..Len(tests) |-> tests[i].attempts])

\* the attempts of a report: those of its tests, then those of its suites
reportAttempts(rpt) ==
  LET tests == Get(rpt, "tests", <<>>)
      suites == Get(rpt, "suites", <<>>)
  IN  flat([i \in 1..Len(tests) |-> tests[i].attempts])
        \o flat([i \in 1..Len(suites) |-> suiteAttempts(suites[i])])

\* every environmentIdx of the report is an index of report.environments
WellFormed(rpt) ==
  LET attempts == reportAttempts(rpt)
  IN  \A i \in 1..Len(attempts) :
        Get(attempts[i], "environmentIdx", 0) \in 0..(Len(rpt.environments) - 1)

(***************************************************************************)
(* Telemetry: addTelemetryPoint, toProtocolTelemetry and a sampler         *)
(* (RAMUtilization) that uses them.  Timestamps are the integers of        *)
(* Date.now(); values are percentages, counted in thousandths of a percent *)
(* so that the rounding to hundredths has something to round.              *)
(***************************************************************************)
\* Math.abs
abs(x) == IF x < 0 THEN -x ELSE x

\* Math.round(value * 100) / 100: to the nearest hundredth, halves upwards
round(value) == ((value + 5) \div 10) * 10

\* a mutant of addTelemetryPoint: a flat run is looked for from the third
\* stored point on
addTelemetryPointFromThree(coll, newPoint, prec) ==
  LET n == Len(coll)
  IN  IF /\ n >= 3
         /\ abs(coll[n].value - coll[n - 1].value) < prec
         /\ abs(coll[n].value - newPoint.value) < prec
      THEN [coll EXCEPT ![n].timestamp = newPoint.timestamp]
      ELSE Append(coll, newPoint)

\* a mutant of addTelemetryPoint: the flat run takes the new point whole
addTelemetryPointOverwrite(coll, newPoint, prec) ==
  LET n == Len(coll)
  IN  IF /\ n >= 2
         /\ abs(coll[n].value - coll[n - 1].value) < prec
         /\ abs(coll[n].value - newPoint.value) < prec
      THEN [coll EXCEPT ![n] = newPoint]
      ELSE Append(coll, newPoint)

\* addTelemetryPoint(collection, newPoint, precision): the collection after
\* the call; lastPoint is coll[n], preLastPoint is coll[n - 1]
addTelemetryPoint(coll, newPoint, prec) ==
  LET n == Len(coll)
  IN  IF /\ n >= 2
         /\ abs(coll[n].value - coll[n - 1].value) < prec
         /\ abs(coll[n].value - newPoint.value) < prec
      THEN [coll EXCEPT ![n].timestamp = newPoint.timestamp]
      ELSE Append(coll, newPoint)

\* a mutant of toProtocolTelemetry: every delta is taken from the first point
toProtocolTelemetryFromFirst(coll) ==
  IF Len(coll) = 0 THEN <<>>
  ELSE [idx \in 1..Len(coll) |->
          <<IF idx = 1 THEN coll[idx].timestamp
            ELSE coll[idx].timestamp - coll[1].timestamp,
            round(coll[idx].value)>>]

\* toProtocolTelemetry(collection); lastTimestamp is the timestamp of the
\* point before idx
toProtocolTelemetry(coll) ==
  IF Len(coll) = 0 THEN <<>>
  ELSE [idx \in 1..Len(coll) |->
          <<IF idx = 1 THEN coll[idx].timestamp
            ELSE coll[idx].timestamp - coll[idx - 1].timestamp,
            round(coll[idx].value)>>]

\* the samples of one sampler
MaxSamples == 4

\* Date.now() at a sample: the clock may stand still, and may be set back
Times == {1000, 1500}

\* utilization, in thousandths of a percent
Values == {0, 5000, 10000, 12000, 12005}

\* options.precision: the default of RAMUtilization (1 percent) and of
\* CPUUtilization (7 percent)
Precisions == {1000, 7000}

\* RAMUtilization.sample
sample ==
  /\ precision \in Precisions
  /\ ~protocol.called
  /\ Len(samples) < MaxSamples
  /\ \E timestamp \in Times, value \in Values :
       LET newPoint == [timestamp |-> timestamp, value |-> value]
       IN  /\ collection' = addTelemetryPoint(collection, newPoint, precision)
           /\ samples' = Append(samples, newPoint)
  /\ UNCHANGED <<precision, protocol, pvars, rvars, nvars, avars, svars>>

\* RAMUtilization.enrich, when the report is built
enrich ==
  /\ precision \in Precisions
  /\ ~protocol.called
  /\ protocol' = [called |-> TRUE, ram |-> toProtocolTelemetry(collection)]
  /\ UNCHANGED <<collection, precision, samples, pvars, rvars, nvars, avars, svars>>

TelemetryNext == sample \/ enrich

(***************************************************************************)
(* Attachment ids: createFileAttachment, createDataAttachment, sha1Text    *)
(* and sha1File.  A hash object is the bytes it has been updated with, and *)
(* its digest is determined by them and by nothing else.                   *)
(***************************************************************************)
\* crypto.createHash('sha1')
createHash == <<>>

\* a mutant of update: the hash keeps the last chunk only
updateKeepsLastChunk(hash, chunk) == chunk

\* hash.update(chunk)
update(hash, chunk) == hash \o chunk

\* hash.digest('hex')
digest(hash) == <<"sha1", hash>>

sha1Text(data) == digest(update(createHash, data))

\* the length of a file or buffer
MaxBytes == 3

Bytes == {0, 1}
ByteStrings == UNION {[1..n -> Bytes] : n \in 0..MaxBytes}
Paths == {"a.png", "b.log"}
MimeTypes == {"image/png", "text/plain"}

\* no stream was opened
Closed == [st |-> "closed"]

\* createDataAttachment(contentType, data)
createDataAttachment ==
  /\ ~dataAttachment.called
  /\ \E contentType \in MimeTypes, data \in ByteStrings :
       dataAttachment' = [called |-> TRUE, type |-> "buffer", contentType |-> contentType,
                          id |-> sha1Text(data), body |-> data]
  /\ UNCHANGED <<disk, hashing, fileAttachment, pvars, rvars, nvars, tvars, svars>>

\* createFileAttachment(contentType, filePath) up to the await: sha1File
\* creates the hash and the read stream
createFileAttachment ==
  /\ hashing = Closed
  /\ \E contentType \in MimeTypes :
       hashing' = [st |-> "open", contentType |-> contentType, path |-> disk.path,
                   hash |-> createHash, offset |-> 0, chunks |-> 0]
  /\ UNCHANGED <<disk, fileAttachment, dataAttachment, pvars, rvars, nvars, tvars, svars>>

\* stream.on('data'): the next chunk of the file, of any length; chunks
\* counts the events
streamData ==
  /\ hashing.st = "open"
  /\ \E n \in 1..(Len(disk.bytes) - hashing.offset) :
       hashing' = [hashing EXCEPT
                     !.hash = update(@, SubSeq(disk.bytes, hashing.offset + 1,
                                               hashing.offset + n)),
                     !.offset = @ + n,
                     !.chunks = @ + 1]
  /\ UNCHANGED <<disk, fileAttachment, dataAttachment, pvars, rvars, nvars, tvars, svars>>

\* stream.on('end'): sha1File resolves and createFileAttachment returns
streamEnd ==
  /\ hashing.st = "open"
  /\ hashing.offset = Len(disk.bytes)
  /\ hashing' = [hashing EXCEPT !.st = "ended"]
  /\ fileAttachment' = [called |-> TRUE, type |-> "file",
                        contentType |-> hashing.contentType,
                        id |-> digest(hashing.hash), path |-> hashing.path]
  /\ UNCHANGED <<disk, dataAttachment, pvars, rvars, nvars, tvars, svars>>

\* stream.on('error'): sha1File rejects, and so does createFileAttachment
streamError ==
  /\ hashing.st = "open"
  /\ hashing' = [hashing EXCEPT !.st = "failed"]
  /\ UNCHANGED <<disk, fileAttachment, dataAttachment, pvars, rvars, nvars, tvars, svars>>

AttachmentNext ==
  \/ createDataAttachment
  \/ createFileAttachment
  \/ streamData
  \/ streamEnd
  \/ streamError

(***************************************************************************)
(* StaticServer.start and StaticServer._startServer                        *)
(*   spc  where start is suspended: in the await of the port === 0 branch  *)
(*        (port0), of the loop (loop) or after the loop (fallback)         *)
(***************************************************************************)
\* the bound of the loop of start
PortAttempts == 20
\* the last port, and the port the loop goes on with after it
LastPort == 65535
WrapPort == 4000

NoPort == -1

\* the ports start is called with, and the ports the system assigns to
\* listen(0)
StartPorts == {0, 3000, 65530, 65535}
AssignedPorts == {49152, 49153}

\* what the server emits after listen: 'listening', or 'error' with a code
ErrorCodes == {"EADDRINUSE", "EACCES"}

\* a mutant of nextPort: no port after the last
nextPortPastLast(port) == port + 1

\* port = port + 1; if (port > 65535) port = 4000
nextPort(port) == IF port + 1 > LastPort THEN WrapPort ELSE port + 1

\* the port of the listen call that start awaits
listenPort == IF spc = "loop" THEN sport ELSE 0

\* StaticServer.address() while the server does not listen: undefined
NoAddress == <<>>

\* StaticServer.address(), while the server listens on port p
addressOf(p) == <<"http://127.0.0.1:", p>>

\* start(port, host), up to the first await
start ==
  /\ spc = "idle"
  /\ \E port \in StartPorts :
       /\ sport' = port
       /\ spc' = IF port = 0 THEN "port0" ELSE "loop"
  /\ si' = 0
  /\ UNCHANGED <<listens, bound, address, pvars, rvars, nvars, tvars, avars>>

\* 'listening' is emitted: _startServer resolves and start returns the
\* address
listening ==
  /\ spc \in {"port0", "loop", "fallback"}
  /\ \E p \in IF listenPort = 0 THEN AssignedPorts ELSE {listenPort} :
       /\ bound' = p
       /\ address' = addressOf(p)
  /\ listens' = Append(listens, [port |-> listenPort, event |-> "listening"])
  /\ spc' = "returned"
  /\ UNCHANGED <<sport, si, pvars, rvars, nvars, tvars, avars>>

\* 'error' is emitted: _startServer rejects; start throws, or goes on to
\* the next port, or leaves the loop for listen(0)
error ==
  /\ spc \in {"port0", "loop", "fallback"}
  /\ \E code \in ErrorCodes :
       /\ listens' = Append(listens, [port |-> listenPort, event |-> code])
       /\ IF spc = "loop" /\ code = "EADDRINUSE"
          THEN /\ sport' = nextPort(sport)
               /\ si' = si + 1
               /\ spc' = IF si + 1 < PortAttempts THEN "loop" ELSE "fallback"
          ELSE /\ spc' = "thrown"
               /\ UNCHANGED <<sport, si>>
  /\ UNCHANGED <<bound, address, pvars, rvars, nvars, tvars, avars>>

ServerNext == start \/ listening \/ error

(***************************************************************************)
(* Specifications                                                          *)
(***************************************************************************)
MaxAttachments == 2

\* the lists of at most MaxAttachments attachments: the first attachments of
\* AttachmentOrder, and the same file attached twice
AttachmentLists ==
  {SubSeq(AttachmentOrder, 1, n) : n \in 0..Min(MaxAttachments, Len(AttachmentOrder))}
    \cup {<<BinaryFile, BinaryFile>>}

PipelineStart ==
  /\ pc = "init"
  /\ accessToken = UNDEFINED
  /\ outcome = Pending
  /\ net = NoRequests
  /\ urls = {}
  /\ uploads = [u \in Uploads |-> UploadNew]

RetryIdle ==
  /\ rb = <<>>
  /\ rr = RetryNew
  /\ rlog = <<>>

NormalizeIdle ==
  /\ given = NotCalled
  /\ passed = NotCalled
  /\ result = NotCalled
  /\ again = NotCalled
  /\ npc = "idle"

TelemetryIdle ==
  /\ collection = <<>>
  /\ precision = 0
  /\ samples = <<>>
  /\ protocol = NotCalled

AttachmentIdle ==
  /\ disk = NotCalled
  /\ hashing = Closed
  /\ fileAttachment = NotCalled
  /\ dataAttachment = NotCalled

ServerIdle ==
  /\ spc = "idle"
  /\ sport = 0
  /\ si = 0
  /\ listens = <<>>
  /\ bound = NoPort
  /\ address = NoAddress

\* the upload pipeline: a token given as option, or no token at all with or
\* without the OIDC exchange (then without attachments)
Init ==
  /\ options \in [flakinessAccessToken : {UNDEFINED, "opt-token"},
                  githubOIDCAudience : {UNDEFINED, "org/opt"},
                  throwOnFailure : BOOLEAN]
  /\ environ \in [FLAKINESS_ACCESS_TOKEN : {UNDEFINED},
                  FLAKINESS_OIDC_AUDIENCE : {UNDEFINED},
                  ACTIONS_ID_TOKEN_REQUEST_URL : {UNDEFINED, "https://actions/token"},
                  ACTIONS_ID_TOKEN_REQUEST_TOKEN : {UNDEFINED, "request-token"}]
  /\ (environ.ACTIONS_ID_TOKEN_REQUEST_URL = UNDEFINED)
       <=> (environ.ACTIONS_ID_TOKEN_REQUEST_TOKEN = UNDEFINED)
  /\ options.flakinessAccessToken # UNDEFINED =>
       /\ options.githubOIDCAudience = UNDEFINED
       /\ ~isGitHubOIDCAvailable(environ)
  /\ report = [flakinessProject |-> UNDEFINED]
  /\ attachments \in AttachmentLists
  /\ options.flakinessAccessToken = UNDEFINED => attachments = <<>>
  /\ PipelineStart
  /\ RetryIdle
  /\ NormalizeIdle
  /\ TelemetryIdle
  /\ AttachmentIdle
  /\ ServerIdle

Next == PipelineNext

Spec == Init /\ [][Next]_vars

\* the credentials of uploadReport: a token given as option, or no token at
\* all with or without the OIDC exchange
TokenOrOIDC ==
  /\ options \in [flakinessAccessToken : {UNDEFINED, "opt-token"},
                  githubOIDCAudience : {UNDEFINED, "org/opt"},
                  throwOnFailure : BOOLEAN]
  /\ environ \in [FLAKINESS_ACCESS_TOKEN : {UNDEFINED},
                  FLAKINESS_OIDC_AUDIENCE : {UNDEFINED},
                  ACTIONS_ID_TOKEN_REQUEST_URL : {UNDEFINED, "https://actions/token"},
                  ACTIONS_ID_TOKEN_REQUEST_TOKEN : {UNDEFINED, "request-token"}]
  /\ (environ.ACTIONS_ID_TOKEN_REQUEST_URL = UNDEFINED)
       <=> (environ.ACTIONS_ID_TOKEN_REQUEST_TOKEN = UNDEFINED)
  /\ options.flakinessAccessToken # UNDEFINED =>
       /\ options.githubOIDCAudience = UNDEFINED
       /\ ~isGitHubOIDCAvailable(environ)
  /\ report = [flakinessProject |-> UNDEFINED]

\* the upload pipeline with one attachment, of every kind and content type
InitCompress ==
  /\ TokenOrOIDC
  /\ attachments \in {<<a>> : a \in AttachmentCases} \cup {<<>>}
  /\ options.flakinessAccessToken = UNDEFINED <=> attachments = <<>>
  /\ PipelineStart
  /\ RetryIdle
  /\ NormalizeIdle
  /\ TelemetryIdle
  /\ AttachmentIdle
  /\ ServerIdle

SpecCompress == InitCompress /\ [][Next]_vars

\* the upload pipeline with two attachments, which makes three uploads of
\* the transfer phase
InitTransfer ==
  /\ TokenOrOIDC
  /\ attachments \in {<<>>, <<BinaryBuffer, TextBuffer>>, <<BinaryFile, JsonFile>>}
  /\ options.flakinessAccessToken = UNDEFINED <=> attachments = <<>>
  /\ PipelineStart
  /\ RetryIdle
  /\ NormalizeIdle
  /\ TelemetryIdle
  /\ AttachmentIdle
  /\ ServerIdle

SpecTransfer == InitTransfer /\ [][Next]_vars

\* the choice of the credential: every combination of the token and audience
\* options and variables, unset, empty or set; attachments only with the
\* token option
InitAuth ==
  /\ options \in [flakinessAccessToken : {UNDEFINED, "", "opt-token"},
                  githubOIDCAudience : {UNDEFINED, "", "org/opt"},
                  throwOnFailure : BOOLEAN]
  /\ environ \in [FLAKINESS_ACCESS_TOKEN : {UNDEFINED, "", "env-token"},
                  FLAKINESS_OIDC_AUDIENCE : {UNDEFINED, "", "org/env"},
                  ACTIONS_ID_TOKEN_REQUEST_URL : {UNDEFINED, "https://actions/token"},
                  ACTIONS_ID_TOKEN_REQUEST_TOKEN : {UNDEFINED, "request-token"}]
  /\ report \in [flakinessProject : {UNDEFINED, "org/proj"}]
  /\ attachments \in {<<>>, <<BinaryFile>>}
  /\ attachments # <<>> =>
       /\ options.flakinessAccessToken = "opt-token"
       /\ options.githubOIDCAudience = UNDEFINED
       /\ \A name \in DOMAIN environ : environ[name] = UNDEFINED
       /\ report.flakinessProject = UNDEFINED
  /\ PipelineStart
  /\ RetryIdle
  /\ NormalizeIdle
  /\ TelemetryIdle
  /\ AttachmentIdle
  /\ ServerIdle

SpecAuth == InitAuth /\ [][Next]_vars

\* retryWithBackoff on its own
InitRetry ==
  /\ options = [flakinessAccessToken |-> UNDEFINED, githubOIDCAudience |-> UNDEFINED,
                throwOnFailure |-> FALSE]
  /\ environ = [FLAKINESS_ACCESS_TOKEN |-> UNDEFINED, FLAKINESS_OIDC_AUDIENCE |-> UNDEFINED,
                ACTIONS_ID_TOKEN_REQUEST_URL |-> UNDEFINED,
                ACTIONS_ID_TOKEN_REQUEST_TOKEN |-> UNDEFINED]
  /\ report = [flakinessProject |-> UNDEFINED]
  /\ attachments = <<>>
  /\ PipelineStart
  /\ RetryInit
  /\ NormalizeIdle
  /\ TelemetryIdle
  /\ AttachmentIdle
  /\ ServerIdle

SpecRetry == InitRetry /\ [][RetryNext]_vars

\* normalizeReport on its own: it is called on a report, then on what it
\* returned
InitNorm ==
  /\ options = [flakinessAccessToken |-> UNDEFINED, githubOIDCAudience |-> UNDEFINED,
                throwOnFailure |-> FALSE]
  /\ environ = [FLAKINESS_ACCESS_TOKEN |-> UNDEFINED, FLAKINESS_OIDC_AUDIENCE |-> UNDEFINED,
                ACTIONS_ID_TOKEN_REQUEST_URL |-> UNDEFINED,
                ACTIONS_ID_TOKEN_REQUEST_TOKEN |-> UNDEFINED]
  /\ report = [flakinessProject |-> UNDEFINED]
  /\ attachments = <<>>
  /\ PipelineStart
  /\ RetryIdle
  /\ \/ \E pieces \in PieceLists(EnvPieces, MaxTests) : given = PieceReport(pieces)
     \/ \E pieces \in PieceLists(IdPieces, MaxTests) : given = PieceReport(pieces)
     \/ \E pieces \in PieceLists(BadPieces, MaxTests - 1) : given = PieceReport(pieces)
     \/ \E pieces \in PieceLists(EnvPieces, MaxTests - 1) :
          given = With(PieceReport(pieces), "environments", OpaqueEnvironments)
     \/ \E shape \in AttemptShapes, inSuite \in BOOLEAN : given = ShapedReport(shape, inSuite)
  /\ passed = given
  /\ result = NotCalled
  /\ again = NotCalled
  /\ npc = "given"
  /\ TelemetryIdle
  /\ AttachmentIdle
  /\ ServerIdle

Normalize ==
  /\ npc = "given"
  /\ result' = normalizeReport(passed)
  /\ passed' = visited(passed)
  /\ npc' = "once"
  /\ UNCHANGED <<given, again, pvars, rvars, tvars, avars, svars>>

\* the second call, for the reports whose result has the environments its
\* attempts refer to
NormalizeAgain ==
  /\ npc = "once"
  /\ WellFormed(given)
  /\ again' = normalizeReport(result)
  /\ npc' = "twice"
  /\ UNCHANGED <<given, passed, result, pvars, rvars, tvars, avars, svars>>

NormNext == Normalize \/ NormalizeAgain

SpecNorm == InitNorm /\ [][NormNext]_vars

\* uploadReport is not called
PipelineIdle ==
  /\ options = [flakinessAccessToken |-> UNDEFINED, githubOIDCAudience |-> UNDEFINED,
                throwOnFailure |-> FALSE]
  /\ environ = [FLAKINESS_ACCESS_TOKEN |-> UNDEFINED, FLAKINESS_OIDC_AUDIENCE |-> UNDEFINED,
                ACTIONS_ID_TOKEN_REQUEST_URL |-> UNDEFINED,
                ACTIONS_ID_TOKEN_REQUEST_TOKEN |-> UNDEFINED]
  /\ report = [flakinessProject |-> UNDEFINED]
  /\ attachments = <<>>
  /\ PipelineStart

\* a sampler on its own: it is constructed with a precision, sampled, and
\* asked once for its telemetry
InitTelemetry ==
  /\ collection = <<>>
  /\ precision \in Precisions
  /\ samples = <<>>
  /\ protocol = NotCalled
  /\ PipelineIdle
  /\ RetryIdle
  /\ NormalizeIdle
  /\ AttachmentIdle
  /\ ServerIdle

SpecTelemetry == InitTelemetry /\ [][TelemetryNext]_vars

\* the attachments made of a file and of a buffer
InitAttachment ==
  /\ disk \in [path : Paths, bytes : ByteStrings]
  /\ hashing = Closed
  /\ fileAttachment = NotCalled
  /\ dataAttachment = NotCalled
  /\ PipelineIdle
  /\ RetryIdle
  /\ NormalizeIdle
  /\ TelemetryIdle
  /\ ServerIdle

SpecAttachment == InitAttachment /\ [][AttachmentNext]_vars

\* a static server is started once
InitServer ==
  /\ ServerIdle
  /\ PipelineIdle
  /\ RetryIdle
  /\ NormalizeIdle
  /\ TelemetryIdle
  /\ AttachmentIdle

SpecServer == InitServer /\ [][ServerNext]_vars

\* after listen the server emits 'listening' or 'error'
SpecServerLive == SpecServer /\ WF_vars(ServerNext)

(***************************************************************************)
(* Properties                                                              *)
(***************************************************************************)
Settled == outcome.kind # "pending"
TransientFailures == {"nonok", "neterr"}
MaxAttempts == Len(HTTP_BACKOFF) + 1
SomeUrlMissing == \E k \in 1..Len(attachments) : attachments[k].id \notin urls

\* C1: the phases of ReportUpload.upload are strictly sequential: the presign
\* request is issued only after the start response, no upload of the transfer
\* phase starts (and no PUT is issued) before the presign response, and the
\* finish request is issued only after the report PUT and every attachment
\* PUT got an OK response
C1_PhasesSequential ==
  /\ net.posts.presign > 0 => net.start = "ok"
  /\ \A u \in Uploads :
       (uploads[u].stage # "unstarted" \/ uploads[u].puts > 0) => net.presign = "ok"
  /\ net.posts.finish > 0 =>
       \A u \in Uploads : uploads[u].stage = "resolved" /\ uploads[u].puts >= 1
  /\ net.posts.start <= 1 /\ net.posts.presign <= 1 /\ net.posts.finish <= 1

\* the finish request was sent after two attachments and the report were
\* transferred, one of them on a retry
C1_Witness ==
  /\ net.posts.finish = 1
  /\ Len(attachments) = 2
  /\ \E u \in Uploads : uploads[u].fails > 0
  /\ \E u \in Uploads : uploads[u].fails = 0

\* C2: uploadReport returns 'success' only when start, presign, the report
\* PUT, every attachment PUT and finish all received an OK response
C2_SuccessNeedsEveryPhaseOk ==
  outcome.status = "success" =>
    /\ net.start = "ok"
    /\ net.presign = "ok"
    /\ \A u \in Uploads : uploads[u].stage = "resolved"
    /\ net.finish = "ok"

\* C3: in safe mode uploadReport never rejects: once it has returned, its
\* promise is resolved with status success, skipped or failed
C3_SafeModeNeverRejects ==
  ~options.throwOnFailure =>
    /\ outcome.kind # "rejected"
    /\ pc = "done" =>
         /\ outcome.kind = "resolved"
         /\ outcome.status \in {"success", "skipped", "failed"}
    /\ (\/ net.oidc \in OIDCOutcomes \ {"ok"}
        \/ net.start \in ApiOutcomes \ {"ok"}
        \/ net.presign \in ApiOutcomes \ {"ok"}
        \/ (net.presign = "ok" /\ SomeUrlMissing)
        \/ \E u \in Uploads : uploads[u].stage = "rejected")
       => outcome.status = "failed"

\* safe mode, and a PUT that failed on all its attempts while another upload
\* was still under way
C3_Witness ==
  /\ ~options.throwOnFailure
  /\ outcome.status = "failed"
  /\ outcome.why = "put"
  /\ \E u \in Uploads : uploads[u].stage = "rejected" /\ uploads[u].puts = MaxAttempts
  /\ \E u \in Uploads : uploads[u].stage \in {"fetching", "sleeping"}

\* C4: in strict mode uploadReport never resolves with status 'failed': every
\* failure (OIDC token request, start, presign, missing presigned URL,
\* exhausted PUT) rejects its promise, while skipped and success are returned
C4_StrictModeThrows ==
  options.throwOnFailure =>
    /\ outcome.status # "failed"
    /\ pc = "done" =>
         \/ outcome.kind = "rejected"
         \/ outcome.kind = "resolved" /\ outcome.status \in {"success", "skipped"}
    /\ (\/ net.oidc \in OIDCOutcomes \ {"ok"}
        \/ net.start \in ApiOutcomes \ {"ok"}
        \/ net.presign \in ApiOutcomes \ {"ok"}
        \/ (net.presign = "ok" /\ SomeUrlMissing)
        \/ \E u \in Uploads : uploads[u].stage = "rejected")
       => outcome.kind = "rejected"
    /\ outcome.kind = "rejected" => outcome.why # "none"

\* strict mode, and a PUT that failed on all its attempts
C4_Witness ==
  /\ options.throwOnFailure
  /\ outcome.kind = "rejected"
  /\ outcome.why = "put"
  /\ \E u \in Uploads : uploads[u].stage = "rejected" /\ uploads[u].puts = MaxAttempts

\* the outcomes of the job that failed, as positions of rlog
FailedCalls == {k \in 1..Len(rlog) : ~rlog[k].ok}

\* C5: retryWithBackoff(job, backoff) invokes job at most Len(backoff)+1
\* times and never again after a success, waits backoff[k] after the k-th
\* failed attempt, returns the first successful result, and rejects with the
\* error of attempt Len(backoff)+1 when all attempts fail; at most 7
\* attempts with HTTP_BACKOFF, exactly one with an empty backoff
C5_RetryContract ==
  /\ rr.calls <= Len(rb) + 1
  /\ rr.calls = Len(rlog) + (IF rr.st = "running" THEN 1 ELSE 0)
  /\ \A k \in 1..Len(rlog) : rlog[k].ok =>
       /\ k = Len(rlog)
       /\ rr.st = "resolved"
       /\ rr.value = rlog[k].v
  /\ rr.st = "resolved" => Len(rlog) >= 1 /\ rlog[Len(rlog)].ok
  /\ rr.waits = SubSeq(rb, 1, Min(Cardinality(FailedCalls), Len(rb)))
  /\ rr.st = "sleeping" => rr.calls = Len(rr.waits)
  /\ rr.st = "running" => rr.calls = Len(rr.waits) + 1
  /\ rr.st = "rejected" <=> Cardinality(FailedCalls) = Len(rb) + 1
  /\ rr.st = "rejected" => rr.err = rlog[Len(rb) + 1].v
  /\ rb = HTTP_BACKOFF => rr.calls <= 7
  /\ rb = <<>> => rr.calls <= 1 /\ (rr.st \in {"resolved", "rejected"} => rr.calls = 1)

\* all seven attempts with HTTP_BACKOFF failed, the last with the error "y"
C5_Witness ==
  /\ rb = HTTP_BACKOFF
  /\ rr.st = "rejected"
  /\ rr.calls = 7
  /\ rr.err = "y"
  /\ rlog[1].v = "x"

\* C6: no request of the pipeline turns a single transient failure into a
\* failed outcome: when the upload has failed on a non-OK response or a
\* network error of start, presign or a PUT, that request was attempted for
\* the whole backoff schedule
C6_EveryTransientFailureRetried ==
  /\ (Settled /\ outcome.why = "start" /\ net.start \in TransientFailures)
       => net.posts.start = MaxAttempts
  /\ (Settled /\ outcome.why = "presign" /\ net.presign \in TransientFailures)
       => net.posts.presign = MaxAttempts
  /\ (Settled /\ outcome.why = "put")
       => \E u \in Uploads : uploads[u].stage = "rejected" /\ uploads[u].puts = MaxAttempts

\* C7: when the presign response has no URL for the id of one of the
\* attachments, the upload fails in the step that receives the response
\* (thrown in strict mode), no upload is started and no PUT is issued for
\* any attachment without URL, and the finish request is never sent
C7_MissingUrlFailsAtOnce ==
  (net.presign = "ok" /\ firstMissing(urls) # 0) =>
    /\ pc = "done"
    /\ outcome = failure(options, "missing url")
    /\ \A k \in 1..Len(attachments) : attachments[k].id \notin urls =>
         uploads[k].stage = "unstarted" /\ uploads[k].puts = 0 /\ uploads[k].r.calls = 0
    /\ net.posts.finish = 0

\* the second attachment has no URL; the first one was started and got its PUT
C7_Witness ==
  /\ net.presign = "ok"
  /\ firstMissing(urls) = 2
  /\ uploads[1].puts > 1
  /\ uploads[0].stage = "resolved"
  /\ outcome.status = "failed"

\* C8: the credential is chosen by strict precedence: the token option, else
\* the FLAKINESS_ACCESS_TOKEN variable, else a GitHub OIDC token requested
\* only when OIDC is available and an audience is configured, else the
\* upload is skipped without any request; the OIDC exchange is never
\* attempted when a token of higher precedence is available
C8_CredentialPrecedence ==
  pc # "init" =>
    IF ~Falsy(options.flakinessAccessToken)
    THEN net.startToken = options.flakinessAccessToken /\ net.oidc = "none"
    ELSE IF ~Falsy(environ.FLAKINESS_ACCESS_TOKEN)
    THEN net.startToken = environ.FLAKINESS_ACCESS_TOKEN /\ net.oidc = "none"
    ELSE IF isGitHubOIDCAvailable(environ) /\ ~Falsy(oidcAudience(options, environ))
    THEN net.oidc # "none" /\ (net.posts.start > 0 => net.startToken = "oidc-jwt")
    ELSE outcome = Skipped /\ net = NoRequests

\* C9: without any access token, with OIDC available and the report's
\* flakinessProject set, uploadReport requests an OIDC token whose audience is
\* the flakinessProject and does not return 'skipped', even when no audience
\* option or variable is set
C9_AudienceFromFlakinessProject ==
  (/\ pc # "init"
   /\ Falsy(options.flakinessAccessToken)
   /\ Falsy(environ.FLAKINESS_ACCESS_TOKEN)
   /\ isGitHubOIDCAvailable(environ)
   /\ ~Falsy(report.flakinessProject)
   /\ options.githubOIDCAudience = UNDEFINED
   /\ environ.FLAKINESS_OIDC_AUDIENCE = UNDEFINED)
  => /\ net.oidc # "none"
     /\ net.oidcAudience = report.flakinessProject
     /\ outcome.status # "skipped"

\* C10: the uploads of the transfer phase are independent: the attempts of an
\* upload and the delays between them follow from the responses to its own
\* requests alone, and every PUT of an upload carries that upload's own URL,
\* headers and payload, whatever happens to the other uploads
C10_UploadsIndependent ==
  \A u \in Uploads :
    LET up == uploads[u]
    IN  /\ up.r.waits = SubSeq(HTTP_BACKOFF, 1, Min(up.fails, Len(HTTP_BACKOFF)))
        /\ up.r.calls = up.fails +
             (IF up.stage \in {"reading", "fetching", "resolved"} THEN 1 ELSE 0)
        /\ up.r.i = (IF up.stage = "sleeping" THEN up.fails - 1
                     ELSE Min(up.fails, Len(HTTP_BACKOFF)))
        /\ up.puts = up.r.calls - (IF up.stage = "reading" THEN 1 ELSE 0)
        /\ up.puts <= MaxAttempts
        /\ up.sent \subseteq {requestOf(u)}
        /\ up.stage = "rejected" <=> up.fails = MaxAttempts

\* one attachment failed on all its attempts while another one got through
\* on its first and the report on its third
C10_Witness ==
  /\ Len(attachments) = 2
  /\ uploads[1].stage = "rejected"
  /\ uploads[2].stage = "resolved" /\ uploads[2].fails = 0
  /\ uploads[0].stage = "resolved" /\ uploads[0].fails = 2

(***************************************************************************)
(* Properties of normalizeReport                                           *)
(***************************************************************************)
\* normalizeReport has returned
Returned == npc \in {"once", "twice"}

\* the suites of a report at every depth, a suite before its child suites
RECURSIVE suiteAndDescendants(_)
suiteAndDescendants(suite) ==
  LET suites == Get(suite, "suites", <<>>)
  IN  <<suite>> \o flat([i \in 1..Len(suites) |-> suiteAndDescendants(suites[i])])

allSuites(rpt) ==
  LET suites == Get(rpt, "suites", <<>>)
  IN  flat([i \in 1..Len(suites) |-> suiteAndDescendants(suites[i])])

\* the tests of a report: at the top and in the suites at every depth
allTests(rpt) ==
  LET suites == allSuites(rpt)
  IN  Get(rpt, "tests", <<>>) \o flat([i \in 1..Len(suites) |-> Get(suites[i], "tests", <<>>)])

Range(seq) == {seq[i] : i \in 1..Len(seq)}

\* C11: normalizing a normalized report changes nothing: the second call
\* returns a report equal to the one it was given, in the order of the
\* environments and in every environmentIdx too
C11_Idempotent == npc = "twice" => again = result

\* C12: for a report whose attempts all refer to an environment of the
\* report, every attempt of the returned report, in the tests at the top
\* and in the suites at every depth, has (with an absent index read as 0) an
\* index of the returned environments
C12_ReferentialIntegrity ==
  (Returned /\ WellFormed(given)) =>
    \A test \in Range(allTests(result)) :
      \A j \in 1..Len(test.attempts) :
        LET idx == Get(test.attempts[j], "environmentIdx", 0)
        IN  /\ idx \in 0..(Len(result.environments) - 1)
            /\ result.environments[idx + 1] # NoEnvironment

\* an unused environment was dropped, so that indices moved, and the
\* returned report has attempts at the top and two suites deep, with and
\* without an index
C12_Witness ==
  /\ npc = "once"
  /\ WellFormed(given)
  /\ Len(result.environments) < Len(given.environments)
  /\ "tests" \in DOMAIN result
  /\ \E suite \in Range(allSuites(result)) :
       /\ suite.title = "n"
       /\ \E t \in Range(Get(suite, "tests", <<>>)) :
            \E a \in Range(t.attempts) :
              "environmentIdx" \in DOMAIN a
  /\ \E a \in Range(reportAttempts(result)) : "environmentIdx" \notin DOMAIN a
  /\ \E a \in Range(reportAttempts(given)) :
       Get(a, "environmentIdx", 0) >= Len(result.environments)

\* what an attempt says, with the default values written out; the
\* environment is left out
RECURSIVE stepMeaning(_)
stepMeaning(step) ==
  LET steps == Get(step, "steps", <<>>)
  IN  [title |-> step.title, duration |-> Get(step, "duration", 0),
       steps |-> [i \in 1..Len(steps) |-> stepMeaning(steps[i])]]

attemptMeaning(attempt) ==
  LET steps == Get(attempt, "steps", <<>>)
  IN  [status |-> Get(attempt, "status", "passed"),
       expectedStatus |-> Get(attempt, "expectedStatus", "passed"),
       duration |-> Get(attempt, "duration", 0),
       stdout |-> Get(attempt, "stdout", <<>>),
       stderr |-> Get(attempt, "stderr", <<>>),
       annotations |-> Get(attempt, "annotations", <<>>),
       errors |-> Get(attempt, "errors", <<>>),
       attachments |-> Get(attempt, "attachments", <<>>),
       steps |-> [i \in 1..Len(steps) |-> stepMeaning(steps[i])]]

\* the attempts with the environments they ran in
resolved(rpt, attempts) ==
  [i \in 1..Len(attempts) |->
     [attempt |-> attemptMeaning(attempts[i]),
      environment |-> environmentOf(rpt, attempts[i])]]

\* the occurrences of tests in a report, each with the identity of the test,
\* in the order of the traversal
testOccurrences(rpt) ==
  LET isTest(e) == e.kind = "test"
  IN  SelectSeq(visit(rpt), isTest)

\* the occurrences of one test among the occurrences, in order
occurrencesOfTest(occurrences, testId) ==
  LET isIt(e) == e.id = testId
      es == SelectSeq(occurrences, isIt)
  IN  [i \in 1..Len(es) |-> es[i].node]

\* their attempts, in order
attemptsOfTest(occurrences, testId) ==
  LET tests == occurrencesOfTest(occurrences, testId)
  IN  flat([i \in 1..Len(tests) |-> tests[i].attempts])

\* C13: for a report whose attempts all refer to an environment of the
\* report, the returned report has as many attempts as the report given,
\* every test of it holds the attempts of all the occurrences of the test in
\* the order of the occurrences, and every attempt runs in an environment
\* whose content is that of the environment it ran in before
C13_AttemptsPreserved ==
  (Returned /\ WellFormed(given)) =>
    /\ Len(reportAttempts(result)) = Len(reportAttempts(given))
    /\ LET before == testOccurrences(given)
       IN  \A test \in Range(testOccurrences(result)) :
             resolved(result, test.node.attempts)
               = resolved(given, attemptsOfTest(before, test.id))

\* a test of the returned report holds the attempts of two occurrences, and
\* an attempt changed its index
C13_Witness ==
  /\ npc = "once"
  /\ WellFormed(given)
  /\ \E test \in Range(testOccurrences(result)) :
       LET before == attemptsOfTest(testOccurrences(given), test.id)
       IN  /\ Len(test.node.attempts) = 3
           /\ Len(before) = 3
           /\ \E m, n \in 1..3 : Get(before[m], "duration", 0) # Get(before[n], "duration", 0)
           /\ \E n \in 1..3 :
                Get(before[n], "environmentIdx", 0) = 2
                  /\ Get(test.node.attempts[n], "environmentIdx", 0) = 1

\* C14: for a report whose attempts all refer to an environment of the
\* report, the returned environments are the environments that an attempt
\* of the report refers to, by content, each of them once
C14_EnvironmentsUsedOnce ==
  (Returned /\ WellFormed(given)) =>
    /\ Range(result.environments)
         = {environmentOf(given, a) : a \in Range(reportAttempts(given))}
    /\ \A i, j \in 1..Len(result.environments) :
         i # j => result.environments[i] # result.environments[j]

\* the attempts refer to the two entries of equal content and not to the
\* entry between them
C14_Witness ==
  /\ npc = "once"
  /\ {Get(a, "environmentIdx", 0) : a \in Range(reportAttempts(given))} = {0, 2}
  /\ given.environments = <<EnvA, EnvB, EnvA>>
  /\ result.environments = <<EnvA>>

\* C15: for a report whose attempts all refer to an environment of the
\* report, an environment stands before another in the returned report
\* when it is used before the other is, in the order tests of the report,
\* then every suite with its child suites before its own tests
C15_FirstUseOrder ==
  (Returned /\ WellFormed(given)) =>
    LET attempts == reportAttempts(given)
        uses == [k \in 1..Len(attempts) |-> environmentOf(given, attempts[k])]
    IN  \A i, j \in 1..Len(result.environments) :
          i < j => \E k \in 1..Len(uses) :
                     /\ uses[k] = result.environments[i]
                     /\ \A m \in 1..k : uses[m] # result.environments[j]

\* the returned order is not the order of the report given, and it is the
\* attempt in the child suite that comes first
C15_Witness ==
  /\ npc = "once"
  /\ WellFormed(given)
  /\ "tests" \notin DOMAIN given
  /\ NonEmpty(given, "suites")
  /\ NonEmpty(given.suites[1], "suites")
  /\ NonEmpty(given.suites[1], "tests")
  /\ Get(given.suites[1].suites[1].tests[1].attempts[1], "environmentIdx", 0) = 1
  /\ Get(given.suites[1].tests[1].attempts[1], "environmentIdx", 0) = 2
  /\ result.environments = <<EnvB, EnvA>>

\* the lists of suites that have the same parent: the suites of the report,
\* and the child suites of every suite
siblingSuites(rpt) ==
  LET suites == allSuites(rpt)
  IN  <<Get(rpt, "suites", <<>>)>> \o [i \in 1..Len(suites) |-> Get(suites[i], "suites", <<>>)]

\* the lists of tests that are in the same suite: the tests of the report,
\* and the tests of every suite
siblingTests(rpt) ==
  LET suites == allSuites(rpt)
  IN  <<Get(rpt, "tests", <<>>)>> \o [i \in 1..Len(suites) |-> Get(suites[i], "tests", <<>>)]

FileAndTitle(node) == <<locationFile(node), node.title>>

TypeFileAndTitle(suite) == <<suite.type, locationFile(suite), suite.title>>

\* no two tests of the same suite have the same file and title, and the
\* tests at the top of the report given are all there
OneTestPerFileAndTitle ==
  /\ \A tests \in Range(siblingTests(result)) :
           \A i, j \in 1..Len(tests) :
             i # j => FileAndTitle(tests[i]) # FileAndTitle(tests[j])
  /\ {FileAndTitle(t) : t \in Range(Get(result, "tests", <<>>))}
       = {FileAndTitle(t) : t \in Range(Get(given, "tests", <<>>))}

\* C16 as stated: the occurrences of a suite with the same parent, the same
\* file and the same title are returned as one suite, whatever their type
\* and line; the occurrences of a test in the same suite with the same file
\* and title are returned as one test
C16_OneNodePerFileAndTitle ==
  Returned =>
    /\ \A suites \in Range(siblingSuites(result)) :
             \A i, j \in 1..Len(suites) :
               i # j => FileAndTitle(suites[i]) # FileAndTitle(suites[j])
    /\ {FileAndTitle(x) : x \in Range(Get(result, "suites", <<>>))}
         = {FileAndTitle(x) : x \in Range(Get(given, "suites", <<>>))}
    /\ OneTestPerFileAndTitle

\* C16, amended: the occurrences of a suite with the same parent, the same
\* type, the same file and the same title are returned as one suite,
\* whatever their line; the occurrences of a test in the same suite with
\* the same file and title are returned as one test
C16_OneNodePerTypeFileAndTitle ==
  Returned =>
    /\ \A suites \in Range(siblingSuites(result)) :
             \A i, j \in 1..Len(suites) :
               i # j => TypeFileAndTitle(suites[i]) # TypeFileAndTitle(suites[j])
    /\ {TypeFileAndTitle(x) : x \in Range(Get(result, "suites", <<>>))}
         = {TypeFileAndTitle(x) : x \in Range(Get(given, "suites", <<>>))}
    /\ OneTestPerFileAndTitle

\* two occurrences of the suite s that differ in their line, with
\* occurrences of the test t that differ in their line and tags, are
\* returned as one suite with one test
C16_Witness ==
  /\ npc = "once"
  /\ NonEmpty(given, "suites")
  /\ Len(given.suites) = 2
  /\ TypeFileAndTitle(given.suites[1]) = TypeFileAndTitle(given.suites[2])
  /\ given.suites[1].location.line # given.suites[2].location.line
  /\ given.suites[1].tests[1].location.line # given.suites[2].tests[1].location.line
  /\ Len(result.suites) = 1
  /\ Len(result.suites[1].tests) = 1
  /\ Len(result.suites[1].tests[1].attempts) = 2

\* C17: a test of the returned report has the tags of all the occurrences
\* of the test and no other tag, and the title and the location of the
\* first occurrence
C17_TagsUnionFirstTitleLocation ==
  Returned =>
    \A merged \in Range(testOccurrences(result)) :
      LET test == merged.node
          occurrences == occurrencesOfTest(testOccurrences(given), merged.id)
      IN  /\ Len(occurrences) > 0
          /\ Range(Get(test, "tags", <<>>))
               = UNION {Range(Get(occurrences[n], "tags", <<>>)) : n \in 1..Len(occurrences)}
          /\ test.title = occurrences[1].title
          /\ ("location" \in DOMAIN test) = ("location" \in DOMAIN occurrences[1])
          /\ "location" \in DOMAIN test => test.location = occurrences[1].location

\* a test is merged from an occurrence without tags and two occurrences
\* with other lines and different tags
C17_Witness ==
  /\ npc = "once"
  /\ \E merged \in Range(testOccurrences(result)) :
       LET test == merged.node
           occurrences == occurrencesOfTest(testOccurrences(given), merged.id)
       IN  /\ Len(occurrences) = 3
           /\ "tags" \notin DOMAIN occurrences[1]
           /\ Range(Get(occurrences[2], "tags", <<>>)) # Range(Get(occurrences[3], "tags", <<>>))
           /\ occurrences[2].location.line # occurrences[1].location.line
           /\ Range(Get(test, "tags", <<>>)) = {"slow", "smoke"}

\* C18: normalizeReport leaves the report it is given as it was, also the
\* attempts whose annotations, stdout or stderr are empty arrays, and the
\* report it returns holds no object of the report it was given
C18_InputUntouched ==
  Returned =>
    /\ passed = given
    /\ sharedEnvironments(given, usedEnvIds(given, visit(given))) = {}

\* C19: when an attempt has an environmentIdx that is not an index of the
\* environments of the report, normalizeReport does not return a report
\* with an undefined entry among its environments and with attempts that
\* refer to it
C19_OutOfBoundsNotTolerated ==
  (Returned /\ ~WellFormed(given)) =>
    /\ NoEnvironment \notin Range(result.environments)
    /\ \A a \in Range(reportAttempts(result)) :
         Get(a, "environmentIdx", 0) \in 0..(Len(result.environments) - 1)
           => result.environments[Get(a, "environmentIdx", 0) + 1] # NoEnvironment

\* the steps of an attempt or of a step, at every depth
RECURSIVE stepAndDescendants(_)
stepAndDescendants(step) ==
  LET steps == Get(step, "steps", <<>>)
  IN  <<step>> \o flat([i \in 1..Len(steps) |-> stepAndDescendants(steps[i])])

allSteps(attempt) ==
  LET steps == Get(attempt, "steps", <<>>)
  IN  flat([i \in 1..Len(steps) |-> stepAndDescendants(steps[i])])

\* the object has the field, and it is the empty array
EmptyArray(o, k) == k \in DOMAIN o /\ o[k] = <<>>

\* C20: in the returned report no attempt has the status 'passed', the
\* expectedStatus 'passed', the environmentIdx 0 or the duration 0, and no
\* tests, suites, tags, stdout, stderr, annotations, errors, attachments or
\* steps of the report, a suite, a test, an attempt or a step is an empty
\* array
C20_NoDefaultValues ==
  Returned =>
    /\ \A a \in Range(reportAttempts(result)) :
         /\ Get(a, "status", "") # "passed"
         /\ Get(a, "expectedStatus", "") # "passed"
         /\ Get(a, "environmentIdx", 1) # 0
         /\ Get(a, "duration", 1) # 0
         /\ \A k \in {"stdout", "stderr", "annotations", "errors", "attachments", "steps"} :
              ~EmptyArray(a, k)
         /\ \A step \in Range(allSteps(a)) : ~EmptyArray(step, "steps")
    /\ \A k \in {"tests", "suites"} :
         /\ ~EmptyArray(result, k)
         /\ \A suite \in Range(allSuites(result)) : ~EmptyArray(suite, k)
    /\ \A test \in Range(allTests(result)) : ~EmptyArray(test, "tags")

(***************************************************************************)
(* Properties of the telemetry                                             *)
(***************************************************************************)
nondecreasing(numbers) == \A k \in 1..(Len(numbers) - 1) : numbers[k] <= numbers[k + 1]
timestamps(points) == [k \in DOMAIN points |-> points[k].timestamp]

\* every sample is closer than precision to the sample before it
Drift == \A k \in 1..(Len(samples) - 1) :
           abs(samples[k + 1].value - samples[k].value) < precision

Flat == \A j, k \in DOMAIN samples : abs(samples[j].value - samples[k].value) < precision

C22_OnlyChangesRecorded ==
  [][(/\ samples' # samples
      /\ collection # <<>>
      /\ abs(collection[Len(collection)].value - samples'[Len(samples')].value) < precision)
     => Len(collection') = Len(collection)]_vars

\* C23: every call of addTelemetryPoint either appends exactly the new point
\* or changes only the timestamp of the last stored point: the length grows
\* by 0 or 1, no stored value changes, every point but the last is
\* unchanged; the last point is extended (its timestamp becomes the new
\* one) exactly when the series has at least 2 points, the last two stored
\* values differ by less than precision and the last stored value differs
\* from the new value by less than precision
C23_AppendOrExtend ==
  [][samples' # samples =>
       LET newPoint == samples'[Len(samples')]
           n == Len(collection)
           extends == /\ n >= 2
                      /\ abs(collection[n].value - collection[n - 1].value) < precision
                      /\ abs(collection[n].value - newPoint.value) < precision
       IN  /\ Len(collection') \in {n, n + 1}
           /\ \A k \in 1..n : collection'[k].value = collection[k].value
           /\ \A k \in 1..(n - 1) : collection'[k] = collection[k]
           /\ extends => /\ Len(collection') = n
                         /\ collection'[n].timestamp = newPoint.timestamp
           /\ ~extends => collection' = Append(collection, newPoint)]_vars

\* C23: a series that was both appended to and extended
C23_Witness ==
  /\ Len(samples) = 4
  /\ Len(collection) = 3
  /\ collection[3].timestamp # samples[3].timestamp
  /\ collection[3].value # samples[4].value

\* the sum of the first i time components
RECURSIVE prefixSum(_, _)
prefixSum(pairs, i) == IF i = 0 THEN 0 ELSE prefixSum(pairs, i - 1) + pairs[i][1]

\* the example of the encoding: 10 percent at 1000, 12 percent at 1500
ExamplePoints == <<[timestamp |-> 1000, value |-> 10000], [timestamp |-> 1500, value |-> 12000]>>
ExampleProtocol == <<<<1000, 10000>>, <<500, 12000>>>>

\* C24: when the timestamps of the samples never decrease, the stored
\* timestamps never decrease either, and toProtocolTelemetry returns one
\* pair per point, the first time component absolute, the later ones
\* non-negative deltas, the sum of the first i time components being the
\* timestamp of point i; the empty series gives the empty list and the
\* example gives [[1000, 10], [500, 12]]
C24_DeltaEncoding ==
  nondecreasing(timestamps(samples)) =>
    /\ nondecreasing(timestamps(collection))
    /\ protocol.called =>
         /\ Len(protocol.ram) = Len(collection)
         /\ collection = <<>> => protocol.ram = <<>>
         /\ \A i \in DOMAIN collection :
              /\ i = 1 => protocol.ram[i][1] = collection[i].timestamp
              /\ i > 1 => protocol.ram[i][1] >= 0
              /\ prefixSum(protocol.ram, i) = collection[i].timestamp
         /\ collection = ExamplePoints => protocol.ram = ExampleProtocol

\* C24: the telemetry of three points, the first two those of the example
C24_Witness ==
  /\ nondecreasing(timestamps(samples))
  /\ protocol.called
  /\ Len(collection) = 3
  /\ SubSeq(collection, 1, 2) = ExamplePoints
  /\ SubSeq(protocol.ram, 1, 2) = ExampleProtocol

(***************************************************************************)
(* Properties of the requests of the transfer phase                        *)
(***************************************************************************)
\* a content type that, lower-cased and trimmed, starts with text/ or ends
\* with +json, +text or +xml
textual(contentType) ==
  LET mimeType == trim(toLocaleLowerCase(contentType))
  IN  \/ \E prefix \in {<<"t", "e", "x", "t", "/">>} :
           /\ Len(mimeType) >= Len(prefix)
           /\ \A k \in DOMAIN prefix : mimeType[k] = prefix[k]
      \/ \E suffix \in {<<"+", "j", "s", "o", "n">>, <<"+", "t", "e", "x", "t">>,
                         <<"+", "x", "m", "l">>} :
           /\ Len(mimeType) >= Len(suffix)
           /\ \A k \in DOMAIN suffix : mimeType[Len(mimeType) - Len(suffix) + k] = suffix[k]

\* C25: an attachment is sent compressed, with Content-Encoding: br, exactly
\* when its content type, lower-cased and trimmed, starts with text/ or ends
\* with +json, +text or +xml; every other attachment, from a file or from a
\* buffer, is sent as it is and without Content-Encoding; the report is
\* always sent compressed with Content-Encoding: br
C25_CompressionPolicy ==
  /\ \A req \in uploads[0].sent :
       req.contentEncoding = "br" /\ req.body = compressTextAsync("report")
  /\ \A u \in 1..Len(attachments) : \A req \in uploads[u].sent :
       IF textual(attachments[u].contentType)
       THEN req.contentEncoding = "br" /\ req.body = compressTextAsync(attachments[u].id)
       ELSE req.contentEncoding = UNDEFINED /\ req.body = Raw(attachments[u].id)

\* C25: the file of content type " A+JSON" was sent, and so was the report
C25_Witness ==
  /\ Len(attachments) = 1
  /\ attachments[1].type = "file"
  /\ attachments[1].contentType = <<" ", "A", "+", "J", "S", "O", "N">>
  /\ uploads[0].sent # {}
  /\ \E req \in uploads[1].sent : req.contentEncoding = "br"

(***************************************************************************)
(* Properties of the environments and of the attachment ids                *)
(***************************************************************************)
\* C26: opaqueData is not used for the deduplication of environments: no two
\* returned environments are equal in name, systemData and userSuppliedData,
\* so that attempts in environments that differ in opaqueData only get the
\* same environmentIdx
C26_OpaqueDataIgnored ==
  (Returned /\ WellFormed(given)) =>
    \A i, j \in 1..Len(result.environments) :
      Without(result.environments[i], {"opaqueData"})
          = Without(result.environments[j], {"opaqueData"})
        => i = j

\* C27: the id of an attachment depends on the bytes only: the attachment
\* createFileAttachment makes of a file and the attachment
\* createDataAttachment makes of a buffer with the bytes of the file have
\* the same id, whatever the content types, the path of the file and the
\* chunks the file is read in
C27_IdOfBytes ==
  (fileAttachment.called /\ dataAttachment.called /\ dataAttachment.body = disk.bytes)
    => fileAttachment.id = dataAttachment.id

\* C27: a file read in more than one chunk, and a buffer of the same bytes
\* under another content type
C27_Witness ==
  /\ fileAttachment.called
  /\ dataAttachment.called
  /\ dataAttachment.body = disk.bytes
  /\ Len(disk.bytes) = MaxBytes
  /\ fileAttachment.contentType # dataAttachment.contentType
  /\ hashing.chunks > 1

(***************************************************************************)
(* Properties of the uploads that outlive uploadReport                     *)
(***************************************************************************)
\* uploadReport has resolved with status 'failed', or has rejected
Failed == outcome.kind = "rejected" \/ outcome.status = "failed"

\* C28: once uploadReport has resolved 'failed' (or rejected in strict
\* mode), no further network request is issued: no PUT attempt or retry of
\* the report or of an attachment, and no POST
C28_NoRequestAfterFailure ==
  [][Failed =>
       /\ \A u \in Uploads : uploads'[u].puts = uploads[u].puts
       /\ net'.posts = net.posts]_vars

\* C28, amended: once uploadReport has resolved 'failed' (or rejected in
\* strict mode), no further POST request is issued and no further upload is
\* started; the uploads that were started before may still issue PUT
\* attempts and retries
C28_NoPostAfterFailure ==
  [][Failed =>
       /\ net'.posts = net.posts
       /\ \A u \in Uploads :
            uploads[u].stage = "unstarted" => uploads'[u].stage = "unstarted"]_vars

\* C28: uploadReport has failed on the report while the PUT of an attachment
\* is under way, on a retry
C28_Witness ==
  /\ Failed
  /\ Len(attachments) = 2
  /\ uploads[0].stage = "rejected"
  /\ uploads[1].stage = "resolved"
  /\ uploads[2].stage = "fetching" /\ uploads[2].fails > 0

\* C29: every upload started in the transfer phase has its failure
\* observed: an upload that rejects was given to Promise.all, which is not
\* called when the presigned URL of an attachment is missing
C29_EveryFailureObserved ==
  \A u \in Uploads : uploads[u].stage = "rejected" => ~SomeUrlMissing

(***************************************************************************)
(* Properties of StaticServer.start                                        *)
(***************************************************************************)
\* the port of the k-th listen call of a start with a port other than 0
sequentialPort(first, k) ==
  IF first + (k - 1) <= LastPort THEN first + (k - 1)
  ELSE WrapPort + (first + (k - 1) - (LastPort + 1))

\* what start has done so far is what the claim allows
StartContract ==
  /\ \A k \in DOMAIN listens :
       LET first == listens[1].port
       IN  /\ first = 0 => k = 1
           /\ first # 0 =>
                /\ k <= PortAttempts + 1
                /\ k <= PortAttempts => listens[k].port = sequentialPort(first, k)
                /\ k = PortAttempts + 1 => listens[k].port = 0
           /\ k < Len(listens) => listens[k].event = "EADDRINUSE"
           /\ (listens[k].event \notin {"listening", "EADDRINUSE"} \/ listens[k].port = 0)
                => (k = Len(listens) /\ spc \in {"returned", "thrown"})
  /\ spc = "returned" =>
       /\ listens[Len(listens)].event = "listening"
       /\ bound # NoPort
       /\ listens[Len(listens)].port # 0 => bound = listens[Len(listens)].port
       /\ address = addressOf(bound)
  /\ spc = "thrown" => listens[Len(listens)].event # "listening"

\* C30: start(port, host) always terminates, by returning or by throwing.
\* With port 0 it makes one listen attempt.  Otherwise it tries at most 20
\* ports in sequence, port, port + 1 and so on, going on with 4000 after
\* 65535; it moves to the next port on EADDRINUSE only and rethrows any
\* other listen error at once; after 20 busy ports it makes exactly one
\* more attempt, on a port the system assigns.  Whenever it returns, the
\* server is listening and the address returned is that of the port bound
C30_StartTerminates ==
  /\ []StartContract
  /\ <>(spc \in {"returned", "thrown"})

\* C30: 20 busy ports, the last of them after the wrap, then the port
\* the system assigned
C30_Witness ==
  /\ spc = "returned"
  /\ Len(listens) = PortAttempts + 1
  /\ listens[1].port = LastPort
  /\ listens[PortAttempts].port = WrapPort + PortAttempts - 2
  /\ bound \in AssignedPorts
====
